---------------------------- MODULE Spec2Model ----------------------------
(***************************************************************************)
(* Stealth Guard: policy engine (lib/domainFilter.js), challenge-bypass    *)
(* coordinator and proxy adapter (background.js), and the session cache of *)
(* the page contexts (content-scripts/injector.js).                        *)
(*                                                                         *)
(* JavaScript strings are sequences of one-character strings, so that      *)
(* split / trim / startsWith / endsWith / toLowerCase are computed and not *)
(* assumed.  `undefined` / `null` strings are the sentinel NullStr.        *)
(***************************************************************************)
EXTENDS Integers, Sequences, FiniteSets, TLC

(***************************************************************************)
(* Strings                                                                 *)
(***************************************************************************)
NullStr == <<"<null>">>

EmptyStr == <<>>

UpperChars == <<"A","B","C","D","E","F","G","H","I","J","K","L","M",
                "N","O","P","Q","R","S","T","U","V","W","X","Y","Z">>

LowerChars == <<"a","b","c","d","e","f","g","h","i","j","k","l","m",
                "n","o","p","q","r","s","t","u","v","w","x","y","z">>

UpperSet == {UpperChars[i] : i \in 1..Len(UpperChars)}

ToLowerMap ==
    [c \in UpperSet |-> LowerChars[CHOOSE i \in 1..Len(UpperChars) : UpperChars[i] = c]]

ToLowerChar(c) == IF c \in UpperSet THEN ToLowerMap[c] ELSE c

ToLowerCase(s) == [i \in 1..Len(s) |-> ToLowerChar(s[i])]

StartsWith(s, p) == Len(p) <= Len(s) /\ SubSeq(s, 1, Len(p)) = p

EndsWith(s, p) == Len(p) <= Len(s) /\ SubSeq(s, Len(s) - Len(p) + 1, Len(s)) = p

Includes(s, p) ==
    \E i \in 1..(Len(s) + 1) : i + Len(p) - 1 <= Len(s) /\ SubSeq(s, i, i + Len(p) - 1) = p

IsBlank(c) == c = " "

RECURSIVE TrimStart(_)
TrimStart(s) == IF s # <<>> /\ IsBlank(Head(s)) THEN TrimStart(Tail(s)) ELSE s

RECURSIVE TrimEnd(_)
TrimEnd(s) ==
    IF s # <<>> /\ IsBlank(s[Len(s)]) THEN TrimEnd(SubSeq(s, 1, Len(s) - 1)) ELSE s

Trim(s) == TrimEnd(TrimStart(s))

\* s.split(sep) for a one-character separator: always at least one piece
RECURSIVE SplitAcc(_, _, _)
SplitAcc(s, sep, cur) ==
    IF s = <<>> THEN <<cur>>
    ELSE IF Head(s) = sep THEN <<cur>> \o SplitAcc(Tail(s), sep, <<>>)
    ELSE SplitAcc(Tail(s), sep, Append(cur, Head(s)))

Split(s, sep) == SplitAcc(s, sep, <<>>)

RECURSIVE Join(_, _)
Join(parts, sep) ==
    IF parts = <<>> THEN <<>>
    ELSE IF Len(parts) = 1 THEN parts[1]
    ELSE parts[1] \o sep \o Join(Tail(parts), sep)

RECURSIVE FilterNonEmpty(_)
FilterNonEmpty(parts) ==
    IF parts = <<>> THEN <<>>
    ELSE IF Head(parts) = <<>> THEN FilterNonEmpty(Tail(parts))
    ELSE <<Head(parts)>> \o FilterNonEmpty(Tail(parts))

\* whitelistString.split(",").map(s => s.trim()).filter(Boolean)
ParsePatterns(s) ==
    LET parts == Split(s, ",")
    IN FilterNonEmpty([i \in 1..Len(parts) |-> Trim(parts[i])])

(***************************************************************************)
(* URLs: new URL(url).hostname.  A string with no scheme separator throws; *)
(* an http(s) URL yields its lower-cased authority; any other scheme       *)
(* (about:blank, data:, chrome:) parses with an empty hostname.            *)
(***************************************************************************)
HttpPrefix == <<"h","t","t","p",":","/","/">>

HttpsPrefix == <<"h","t","t","p","s",":","/","/">>

RECURSIVE TakeUntilSlash(_)
TakeUntilSlash(s) ==
    IF s = <<>> \/ Head(s) = "/" THEN <<>>
    ELSE <<Head(s)>> \o TakeUntilSlash(Tail(s))

UrlHostname(url) ==
    IF StartsWith(url, HttpsPrefix)
    THEN ToLowerCase(TakeUntilSlash(SubSeq(url, Len(HttpsPrefix) + 1, Len(url))))
    ELSE IF StartsWith(url, HttpPrefix)
    THEN ToLowerCase(TakeUntilSlash(SubSeq(url, Len(HttpPrefix) + 1, Len(url))))
    ELSE EmptyStr

IsHttpUrl(url) == StartsWith(url, HttpsPrefix) \/ StartsWith(url, HttpPrefix)

UrlParses(url) ==
    /\ url # NullStr
    /\ Includes(url, <<":">>)
    /\ ~Includes(url, <<" ">>)
    /\ IsHttpUrl(url) => UrlHostname(url) # EmptyStr

\* the text of the url stands for the hostname when URL() throws
extractHostname_rawText(url) == IF UrlParses(url) THEN UrlHostname(url) ELSE url

\* DomainFilter.extractHostname / getHostnameFromUrl: null when URL() throws
extractHostname(url) == IF UrlParses(url) THEN UrlHostname(url) ELSE NullStr

getHostnameFromUrl(url) == extractHostname(url)

\* truthiness that takes the empty string for a value
Truthy_nonNull(s) == s # NullStr

\* JavaScript truthiness of a string-or-null value
Truthy(s) == s # NullStr /\ s # EmptyStr

(***************************************************************************)
(* DomainFilter                                                            *)
(***************************************************************************)
\* matchesPattern that knows the "*." spelling of a suffix wildcard only
matchesPattern_dotOnly(hostname0, pattern0) ==
    LET hostname == ToLowerCase(hostname0)
        pattern  == ToLowerCase(pattern0)
        dot      == <<".">>
    IN  \/ hostname = pattern
        \/ /\ EndsWith(pattern, <<".", "*">>)
           /\ StartsWith(hostname, SubSeq(pattern, 1, Len(pattern) - 2) \o dot)
        \/ /\ StartsWith(pattern, <<"*", ".">>)
           /\ LET domain == SubSeq(pattern, 3, Len(pattern))
              IN hostname = domain \/ EndsWith(hostname, dot \o domain)
        \/ /\ ~Includes(pattern, <<"*">>)
           /\ hostname = <<"w","w","w",".">> \o pattern

\* matchesPattern without the "www." variant of a plain pattern
matchesPattern_noWww(hostname0, pattern0) ==
    LET hostname == ToLowerCase(hostname0)
        pattern  == ToLowerCase(pattern0)
        dot      == <<".">>
    IN  \/ hostname = pattern
        \/ /\ EndsWith(pattern, <<".", "*">>)
           /\ StartsWith(hostname, SubSeq(pattern, 1, Len(pattern) - 2) \o dot)
        \/ /\ StartsWith(pattern, <<"*">>)
           /\ LET domain == IF StartsWith(pattern, <<"*", ".">>)
                            THEN SubSeq(pattern, 3, Len(pattern))
                            ELSE SubSeq(pattern, 2, Len(pattern))
              IN hostname = domain \/ EndsWith(hostname, dot \o domain)

matchesPattern(hostname0, pattern0) ==
    LET hostname == ToLowerCase(hostname0)
        pattern  == ToLowerCase(pattern0)
        star     == <<"*">>
        dot      == <<".">>
    IN  \/ hostname = pattern
        \/ /\ EndsWith(pattern, <<".", "*">>)
           /\ StartsWith(hostname, SubSeq(pattern, 1, Len(pattern) - 2) \o dot)
        \/ /\ StartsWith(pattern, <<"*", ".">>)
           /\ LET domain == SubSeq(pattern, 3, Len(pattern))
              IN hostname = domain \/ EndsWith(hostname, dot \o domain)
        \/ /\ StartsWith(pattern, star)
           /\ ~StartsWith(pattern, <<"*", ".">>)
           /\ LET domain == SubSeq(pattern, 2, Len(pattern))
              IN hostname = domain \/ EndsWith(hostname, dot \o domain)
        \/ /\ ~Includes(pattern, star)
           /\ hostname = <<"w","w","w",".">> \o pattern

\* isWhitelisted that consults the first pattern only
isWhitelisted_firstOnly(hostname, whitelistString) ==
    IF ~Truthy(whitelistString) \/ Trim(whitelistString) = EmptyStr
    THEN FALSE
    ELSE LET patterns == ParsePatterns(whitelistString)
         IN patterns # <<>> /\ matchesPattern(hostname, patterns[1])

isWhitelisted(hostname, whitelistString) ==
    IF ~Truthy(whitelistString) \/ Trim(whitelistString) = EmptyStr
    THEN FALSE
    ELSE LET patterns == ParsePatterns(whitelistString)
         IN \E i \in 1..Len(patterns) : matchesPattern(hostname, patterns[i])

\* injector.js, isDomainWhitelisted: the pattern is neither "prefix.*", "*.domain"
\* nor "*domain"
hasOnlyLeadingWildcard(normalizedPattern) ==
    /\ StartsWith(normalizedPattern, <<"*">>)
    /\ ~StartsWith(normalizedPattern, <<"*", ".">>)
    /\ ~Includes(Tail(normalizedPattern), <<"*">>)

IsGenericWildcard(normalizedPattern) ==
    /\ Includes(normalizedPattern, <<"*">>)
    /\ ~EndsWith(normalizedPattern, <<".", "*">>)
    /\ ~StartsWith(normalizedPattern, <<"*", ".">>)
    /\ ~hasOnlyLeadingWildcard(normalizedPattern)

\* new RegExp("^" + escapedPattern + "$").test(hostname): every character of the
\* pattern is escaped and stands for itself, "*" became ".*"
RECURSIVE wildcardRegexTest(_, _)
wildcardRegexTest(hostname, pattern) ==
    IF pattern = <<>> THEN hostname = <<>>
    ELSE IF Head(pattern) = "*"
         THEN \E k \in 0..Len(hostname) :
                  wildcardRegexTest(SubSeq(hostname, k + 1, Len(hostname)), Tail(pattern))
         ELSE /\ hostname # <<>>
              /\ Head(hostname) = Head(pattern)
              /\ wildcardRegexTest(Tail(hostname), Tail(pattern))

\* injector.js, isDomainWhitelisted: the test of one pattern of the list
isDomainWhitelistedPattern(hostname, pattern) ==
    LET normalizedHostname == ToLowerCase(hostname)
        normalizedPattern  == ToLowerCase(pattern)
        suffixOf(domain)   == \/ normalizedHostname = domain
                              \/ EndsWith(normalizedHostname, <<".">> \o domain)
    IN  \/ normalizedHostname = normalizedPattern
        \/ /\ EndsWith(normalizedPattern, <<".", "*">>)
           /\ StartsWith(normalizedHostname,
                         SubSeq(normalizedPattern, 1, Len(normalizedPattern) - 2) \o <<".">>)
        \/ /\ StartsWith(normalizedPattern, <<"*", ".">>)
           /\ suffixOf(SubSeq(normalizedPattern, 3, Len(normalizedPattern)))
        \/ /\ hasOnlyLeadingWildcard(normalizedPattern)
           /\ suffixOf(Tail(normalizedPattern))
        \/ /\ IsGenericWildcard(normalizedPattern)
           /\ wildcardRegexTest(normalizedHostname, normalizedPattern)
        \/ /\ ~Includes(normalizedPattern, <<"*">>)
           /\ normalizedHostname = <<"w", "w", "w", ".">> \o normalizedPattern

\* DomainFilter.isDomainInWhitelist
isDomainInWhitelist(domain, whitelistString) ==
    IF ~Truthy(whitelistString) \/ ~Truthy(domain)
    THEN FALSE
    ELSE LET domains == ParsePatterns(whitelistString)
         IN \E i \in 1..Len(domains) : ToLowerCase(domains[i]) = ToLowerCase(domain)

\* addDomainToWhitelist that returns the new entry alone
addDomainToWhitelist_replaces(domain, whitelistString) ==
    IF ~Truthy(domain) THEN whitelistString
    ELSE IF isDomainInWhitelist(domain, whitelistString) THEN whitelistString
    ELSE <<"*", ".">> \o domain

\* DomainFilter.addDomainToWhitelist
addDomainToWhitelist(domain, whitelistString) ==
    IF ~Truthy(domain) THEN whitelistString
    ELSE IF isDomainInWhitelist(domain, whitelistString) THEN whitelistString
    ELSE LET entry == <<"*", ".">> \o domain
         IN IF ~Truthy(whitelistString) \/ Trim(whitelistString) = EmptyStr
            THEN entry
            ELSE Trim(whitelistString) \o <<",", " ">> \o entry

\* removeDomainFromWhitelist that removes the bare token only
removeDomainFromWhitelist_bareOnly(domain, whitelistString) ==
    IF ~Truthy(domain) \/ ~Truthy(whitelistString)
    THEN whitelistString
    ELSE LET domains == ParsePatterns(whitelistString)
             keep(d) == ToLowerCase(d) # ToLowerCase(domain)
         IN Join(SelectSeq(domains, keep), <<",", " ">>)

\* DomainFilter.removeDomainFromWhitelist
removeDomainFromWhitelist(domain, whitelistString) ==
    IF ~Truthy(domain) \/ ~Truthy(whitelistString)
    THEN whitelistString
    ELSE LET domains == ParsePatterns(whitelistString)
             targetDomain == ToLowerCase(domain)
             keep(d) == /\ ToLowerCase(d) # targetDomain
                        /\ ToLowerCase(d) # <<"*", ".">> \o targetDomain
         IN Join(SelectSeq(domains, keep), <<",", " ">>)

\* a feature section of the config; present = FALSE is config[featureName] === undefined
NoSection == [present |-> FALSE, enabled |-> FALSE, whitelist |-> NullStr]

Section(en, wl) == [present |-> TRUE, enabled |-> en, whitelist |-> wl]

SectionOf(config, featureName) ==
    IF featureName \in DOMAIN config.features THEN config.features[featureName] ELSE NoSection

\* variant: step 4 (global allowlist) left out
shouldActivateFeature_noGlobalList(config, url, featureName) ==
    LET section  == SectionOf(config, featureName)
        hostname == extractHostname(url)
    IN  IF ~config.enabled THEN FALSE
        ELSE IF ~section.present \/ ~section.enabled THEN FALSE
        ELSE IF ~Truthy(hostname) THEN FALSE
        ELSE IF isWhitelisted(hostname,
                              IF Truthy(section.whitelist) THEN section.whitelist ELSE EmptyStr)
             THEN FALSE
        ELSE TRUE

\* variant: step 5 (feature allowlist) left out
shouldActivateFeature_noFeatureList(config, url, featureName) ==
    LET section  == SectionOf(config, featureName)
        hostname == extractHostname(url)
    IN  IF ~config.enabled THEN FALSE
        ELSE IF ~section.present \/ ~section.enabled THEN FALSE
        ELSE IF ~Truthy(hostname) THEN FALSE
        ELSE IF isWhitelisted(hostname, config.globalWhitelist) THEN FALSE
        ELSE TRUE

shouldActivateFeature(config, url, featureName) ==
    LET section  == SectionOf(config, featureName)
        hostname == extractHostname(url)
    IN  IF ~config.enabled THEN FALSE
        ELSE IF ~section.present \/ ~section.enabled THEN FALSE
        ELSE IF ~Truthy(hostname) THEN FALSE
        ELSE IF isWhitelisted(hostname, config.globalWhitelist) THEN FALSE
        ELSE IF isWhitelisted(hostname,
                              IF Truthy(section.whitelist) THEN section.whitelist ELSE EmptyStr)
             THEN FALSE
        ELSE TRUE

\* the number of matchesPattern calls of isWhitelisted(hostname, whitelistString):
\* the loop stops at the first pattern that matches
RECURSIVE CallsUntilMatch(_, _)
CallsUntilMatch(hostname, patterns) ==
    IF patterns = <<>> THEN 0
    ELSE IF matchesPattern(hostname, Head(patterns)) THEN 1
    ELSE 1 + CallsUntilMatch(hostname, Tail(patterns))

isWhitelistedCalls(hostname, whitelistString) ==
    IF ~Truthy(whitelistString) \/ Trim(whitelistString) = EmptyStr
    THEN 0
    ELSE CallsUntilMatch(hostname, ParsePatterns(whitelistString))

\* the number of matchesPattern calls of shouldActivateFeature(url, featureName)
shouldActivateFeatureCalls(config, url, featureName) ==
    LET section  == SectionOf(config, featureName)
        hostname == extractHostname(url)
        featureWhitelist ==
            IF Truthy(section.whitelist) THEN section.whitelist ELSE EmptyStr
    IN  IF ~config.enabled THEN 0
        ELSE IF ~section.present \/ ~section.enabled THEN 0
        ELSE IF ~Truthy(hostname) THEN 0
        ELSE IF isWhitelisted(hostname, config.globalWhitelist)
             THEN isWhitelistedCalls(hostname, config.globalWhitelist)
        ELSE isWhitelistedCalls(hostname, config.globalWhitelist)
                + isWhitelistedCalls(hostname, featureWhitelist)

(***************************************************************************)
(* Literals used by the model                                              *)
(***************************************************************************)
H_example_com == <<"e","x","a","m","p","l","e",".","c","o","m">>

H_sub_example_com == <<"s","u","b",".">> \o H_example_com

H_www_example_com == <<"w","w","w",".">> \o H_example_com

H_other_com == <<"o","t","h","e","r",".","c","o","m">>

P_star_dot_example_com == <<"*",".">> \o H_example_com

P_list_other_example == H_other_com \o <<","," ">> \o H_example_com

P_star_dot_other_com == <<"*",".">> \o H_other_com

U_sub_example_com == HttpsPrefix \o H_sub_example_com \o <<"/">>

U_example_com == HttpsPrefix \o H_example_com \o <<"/">>

U_www_example_com == HttpPrefix \o H_www_example_com \o <<"/","x">>

U_other_com == HttpsPrefix \o H_other_com \o <<"/">>

U_OTHER_upper == HttpsPrefix \o <<"O","T","H","E","R",".","c","o","m">> \o <<"/">>

U_about_blank == <<"a","b","o","u","t",":","b","l","a","n","k">>

U_garbage == <<"n","o","t"," ","a"," ","u","r","l">>

(***************************************************************************)
(* Policy engine: inputs of the evaluations                                *)
(***************************************************************************)
FeatureIds == {"canvas", "useragent"}

\* featureName arguments: the configured features and one with no section
FeatureArgs == FeatureIds \cup {"webgl"}

PolicyWhitelists == {NullStr, EmptyStr, P_star_dot_example_com, P_list_other_example}

PolicySections ==
    {NoSection} \cup {Section(en, wl) : en \in BOOLEAN, wl \in {EmptyStr, P_star_dot_example_com, H_other_com}}

PolicyConfigs ==
    [enabled : BOOLEAN,
     globalWhitelist : PolicyWhitelists,
     features : [FeatureIds -> PolicySections]]

PolicyUrls ==
    {U_sub_example_com, U_example_com, U_www_example_com, U_other_com, U_OTHER_upper,
     U_about_blank, U_garbage, NullStr}

(***************************************************************************)
(* Challenge-bypass coordinator (background.js): pure parts                *)
(***************************************************************************)
TURNSTILE_BYPASS_TTL_MS == 3 * 60 * 1000

TURNSTILE_RELOAD_DELAY_MS == 1000

\* turnstileTimestamps[hostname]; undefined reads as 0 (both are falsy)
Lookup(m, k) == IF k \in DOMAIN m THEN m[k] ELSE 0

Without(m, k) == [d \in DOMAIN m \ {k} |-> m[d]]

With(m, k, v) == [d \in DOMAIN m \cup {k} |-> IF d = k THEN v ELSE m[d]]

\* variant: the comparison of the sweep is inverted, so the live entries are deleted
pruneExpiredTurnstileEntries_inverted(m, t) ==
    [d \in {e \in DOMAIN m : ~(t - m[e] < TURNSTILE_BYPASS_TTL_MS)} |-> m[d]]

\* variant: the sweep deletes nothing
pruneExpiredTurnstileEntries_keepsAll(m, t) == m

pruneExpiredTurnstileEntries(m, t) ==
    [d \in {e \in DOMAIN m : ~(t - m[e] >= TURNSTILE_BYPASS_TTL_MS)} |-> m[d]]

\* variant: the exact lookup is also satisfied by an unexpired entry of an ancestor
getExactTurnstileBypass_withAncestors(m, hostname, t) ==
    LET labels == Split(hostname, ".")
        ages   == {t - Lookup(m, Join(SubSeq(labels, i, Len(labels)), <<".">>)) :
                     i \in {j \in 1..Len(labels) :
                              Lookup(m, Join(SubSeq(labels, j, Len(labels)), <<".">>)) # 0}}
        live   == {a \in ages : a < TURNSTILE_BYPASS_TTL_MS}
    IN  IF ~Truthy(hostname) \/ live = {}
        THEN [active |-> FALSE, remainingMs |-> 0, map |-> m]
        ELSE [active |-> TRUE,
              remainingMs |-> TURNSTILE_BYPASS_TTL_MS - (CHOOSE a \in live : \A b \in live : a <= b),
              map |-> m]

\* variant: the expiry test of the exact lookup is strict (age > TTL)
getExactTurnstileBypass_strictExpiry(m, hostname, t) ==
    LET timestamp == Lookup(m, hostname)
        age       == t - timestamp
    IN  IF ~Truthy(hostname) \/ timestamp = 0
        THEN [active |-> FALSE, remainingMs |-> 0, map |-> m]
        ELSE IF age > TURNSTILE_BYPASS_TTL_MS
        THEN [active |-> FALSE, remainingMs |-> 0, map |-> Without(m, hostname)]
        ELSE [active |-> TRUE, remainingMs |-> TURNSTILE_BYPASS_TTL_MS - age, map |-> m]

\* variant: the age in milliseconds is compared with the TTL in seconds
getExactTurnstileBypass_ttlInSeconds(m, hostname, t) ==
    LET timestamp == Lookup(m, hostname)
        age       == t - timestamp
        ttl       == TURNSTILE_BYPASS_TTL_MS \div 1000
    IN  IF ~Truthy(hostname) \/ timestamp = 0
        THEN [active |-> FALSE, remainingMs |-> 0, map |-> m]
        ELSE IF age >= ttl
        THEN [active |-> FALSE, remainingMs |-> 0, map |-> Without(m, hostname)]
        ELSE [active |-> TRUE, remainingMs |-> ttl - age, map |-> m]

\* result of the lookup and the map it leaves behind (an expired entry is deleted)
getExactTurnstileBypass(m, hostname, t) ==
    LET timestamp == Lookup(m, hostname)
        age       == t - timestamp
    IN  IF ~Truthy(hostname) \/ timestamp = 0
        THEN [active |-> FALSE, remainingMs |-> 0, map |-> m]
        ELSE IF age >= TURNSTILE_BYPASS_TTL_MS
        THEN [active |-> FALSE, remainingMs |-> 0, map |-> Without(m, hostname)]
        ELSE [active |-> TRUE, remainingMs |-> TURNSTILE_BYPASS_TTL_MS - age, map |-> m]

\* labels.slice(i).join(".")
SuffixDomain(labels, i) == Join(SubSeq(labels, i, Len(labels)), <<".">>)

RECURSIVE WalkParents(_, _, _, _)
WalkParents(m, labels, i, t) ==
    IF i > Len(labels)
    THEN [active |-> FALSE, matchedDomain |-> NullStr, remainingMs |-> 0, map |-> m]
    ELSE LET domain == SuffixDomain(labels, i)
             bypass == getExactTurnstileBypass(m, domain, t)
         IN  IF bypass.active
             THEN [active |-> TRUE, matchedDomain |-> domain,
                   remainingMs |-> bypass.remainingMs, map |-> bypass.map]
             ELSE WalkParents(bypass.map, labels, i + 1, t)

\* variant: the walk starts at the registrable root and moves to the most specific label
RECURSIVE WalkParentsRootFirst(_, _, _, _)
WalkParentsRootFirst(m, labels, i, t) ==
    IF i < 1
    THEN [active |-> FALSE, matchedDomain |-> NullStr, remainingMs |-> 0, map |-> m]
    ELSE LET domain == SuffixDomain(labels, i)
             bypass == getExactTurnstileBypass(m, domain, t)
         IN  IF bypass.active
             THEN [active |-> TRUE, matchedDomain |-> domain,
                   remainingMs |-> bypass.remainingMs, map |-> bypass.map]
             ELSE WalkParentsRootFirst(bypass.map, labels, i - 1, t)

getTurnstileBypassIncludingParents_rootFirst(m, hostname, t) ==
    IF ~Truthy(hostname)
    THEN [active |-> FALSE, matchedDomain |-> NullStr, remainingMs |-> 0, map |-> m]
    ELSE LET labels == Split(hostname, ".")
         IN WalkParentsRootFirst(pruneExpiredTurnstileEntries(m, t), labels, Len(labels), t)

getTurnstileBypassIncludingParents(m, hostname, t) ==
    IF ~Truthy(hostname)
    THEN [active |-> FALSE, matchedDomain |-> NullStr, remainingMs |-> 0, map |-> m]
    ELSE WalkParents(pruneExpiredTurnstileEntries(m, t), Split(hostname, "."), 1, t)

\* sender of a runtime message: a content script has sender.tab, the popup has none
\* isCloudflareChallengeHostname without the subdomains
isCloudflareChallengeHostname_exactOnly(hostname) ==
    hostname = <<"c","h","a","l","l","e","n","g","e","s",".",
                 "c","l","o","u","d","f","l","a","r","e",".","c","o","m">>

isCloudflareChallengeHostname(hostname) ==
    LET challenges == <<"c","h","a","l","l","e","n","g","e","s",".",
                        "c","l","o","u","d","f","l","a","r","e",".","c","o","m">>
    IN hostname = challenges \/ EndsWith(hostname, <<".">> \o challenges)

\* uaListener(details): TRUE when it writes the spoofed User-Agent into the
\* request headers; map is the bypass map after the lookup
uaListener(timestamps, url, t) ==
    IF ~UrlParses(url)
    THEN [map |-> timestamps, rewritten |-> FALSE]
    ELSE LET hostname   == UrlHostname(url)
             bypassInfo == getTurnstileBypassIncludingParents(timestamps, hostname, t)
         IN IF isCloudflareChallengeHostname(hostname)
            THEN [map |-> timestamps, rewritten |-> FALSE]
            ELSE [map |-> bypassInfo.map, rewritten |-> ~bypassInfo.active]

Sender(hasTab, tabId, url) == [hasTab |-> hasTab, tabId |-> tabId, url |-> url]

resolveTabHostname(sender, fallbackHostname) ==
    IF sender.hasTab /\ Truthy(sender.url) /\ Truthy(getHostnameFromUrl(sender.url))
    THEN getHostnameFromUrl(sender.url)
    ELSE fallbackHostname

\* Math.ceil(ms / 1000) for ms >= 0
CeilSeconds(ms) == (ms + 999) \div 1000

(***************************************************************************)
(* Configuration: DEFAULT_CONFIG, loadConfig, and the proxy section        *)
(***************************************************************************)
\* proxy section: activeProfile "" is null; a route is [pattern, profile].  The
\* default bypass list (localhost and private address blocks) names none of the
\* hostnames used here and is left out of the section
ProxySection(en, active, profiles, routes) ==
    [enabled |-> en, activeProfile |-> active, profiles |-> profiles, domainRoutes |-> routes]

Config(en, gw, features, proxy) ==
    [enabled |-> en, globalWhitelist |-> gw, features |-> features, proxy |-> proxy]

DEFAULT_CONFIG ==
    Config(TRUE, EmptyStr, [f \in FeatureIds |-> Section(TRUE, EmptyStr)],
           ProxySection(FALSE, "", {}, <<>>))

\* chrome.storage.local holds the config or nothing
NoStored == [present |-> FALSE, cfg |-> DEFAULT_CONFIG]

Stored(cfg) == [present |-> TRUE, cfg |-> cfg]

RECURSIVE AppendMissing(_, _, _)
AppendMissing(merged, defaults, userLower) ==
    IF defaults = <<>> THEN merged
    ELSE IF ToLowerCase(Head(defaults)) \in userLower
         THEN AppendMissing(merged, Tail(defaults), userLower)
         ELSE AppendMissing(Append(merged, Head(defaults)), Tail(defaults), userLower)

\* mergeWhitelists that looks the default entries up as they are spelled
mergeWhitelists_caseSensitive(defaultWhitelist, userWhitelist) ==
    LET defaultEntries == ParsePatterns(IF Truthy(defaultWhitelist) THEN defaultWhitelist
                                        ELSE EmptyStr)
        userEntries    == ParsePatterns(IF Truthy(userWhitelist) THEN userWhitelist
                                        ELSE EmptyStr)
        userSet        == {userEntries[i] : i \in 1..Len(userEntries)}
    IN Join(AppendMissing(userEntries, defaultEntries, userSet), <<",", " ">>)

mergeWhitelists(defaultWhitelist, userWhitelist) ==
    LET defaultEntries == ParsePatterns(IF Truthy(defaultWhitelist) THEN defaultWhitelist
                                        ELSE EmptyStr)
        userEntries    == ParsePatterns(IF Truthy(userWhitelist) THEN userWhitelist
                                        ELSE EmptyStr)
        userLower      == {ToLowerCase(userEntries[i]) : i \in 1..Len(userEntries)}
    IN Join(AppendMissing(userEntries, defaultEntries, userLower), <<",", " ">>)

\* loadConfig(): the stored config merged over the defaults, then the per-feature
\* lists merged with the default lists (the global list is not merged)
loadConfig(stored) ==
    IF ~stored.present THEN DEFAULT_CONFIG
    ELSE [stored.cfg EXCEPT !.features =
            [f \in FeatureIds |->
                LET sec == stored.cfg.features[f]
                IN [sec EXCEPT !.whitelist =
                      mergeWhitelists(DEFAULT_CONFIG.features[f].whitelist, sec.whitelist)]]]

\* proxy.js, removeProxyProfile(profileName): the config it saves, from the one
\* it loaded
removeProxyProfile(config, profileName) ==
    LET proxy   == config.proxy
        keep(r) == r.profile # profileName
        active  == proxy.activeProfile = profileName
    IN [config EXCEPT !.proxy =
          [enabled       |-> IF active THEN FALSE ELSE proxy.enabled,
           activeProfile |-> IF active THEN "" ELSE proxy.activeProfile,
           profiles      |-> proxy.profiles \ {profileName},
           domainRoutes  |-> SelectSeq(proxy.domainRoutes, keep)]]

\* options page, removeProxyProfile(profileName) after the confirm dialog: what it
\* does to the currentConfig of the page
optionsRemoveProxyProfile(config, profileName) ==
    LET proxy == config.proxy
    IN [config EXCEPT !.proxy =
          [proxy EXCEPT !.profiles = proxy.profiles \ {profileName},
                        !.activeProfile = IF proxy.activeProfile = profileName
                                          THEN "" ELSE proxy.activeProfile]]

\* options page, collectValues(): the proxy fields are read back from the form, the
\* active profile from a <select> that lists the profiles of the page
collectValues(config) ==
    [config EXCEPT !.proxy.activeProfile =
        IF config.proxy.activeProfile \in config.proxy.profiles
        THEN config.proxy.activeProfile ELSE ""]

\* isHostnameOnGlobalAllowlist(hostname, config)
isHostnameOnGlobalAllowlist(hostname, config) ==
    IF ~Truthy(hostname) THEN FALSE
    ELSE isWhitelisted(hostname,
                       IF Truthy(config.globalWhitelist) THEN config.globalWhitelist
                       ELSE EmptyStr)

(***************************************************************************)
(* Session cache of the page contexts (content-scripts/injector.js)        *)
(***************************************************************************)
CONFIG_VERSION == "1.0.2"

CONFIG_CACHE_REFRESH_TTL_MS == 3000

Digits == <<"0","1","2","3","4","5","6","7","8","9">>

DigitSet == {Digits[i] : i \in 1..10}

DigitVal(c) == (CHOOSE i \in 1..10 : Digits[i] = c) - 1

\* String(n) for n >= 0
RECURSIVE String(_)
String(n) ==
    IF n < 10 THEN <<Digits[n + 1]>>
    ELSE String(n \div 10) \o <<Digits[(n % 10) + 1]>>

\* Number.isNaN(x): NaN is the one non-number parseInt returns
NaN == -1

RECURSIVE ParseDigits(_, _)
ParseDigits(s, acc) ==
    IF s = <<>> \/ Head(s) \notin DigitSet THEN acc
    ELSE ParseDigits(Tail(s), 10 * acc + DigitVal(Head(s)))

\* parseInt(s, 10) of an unsigned string: leading blanks skipped, the longest
\* prefix of digits read, NaN when there is no digit
parseInt(s) ==
    LET t == TrimStart(s)
    IN IF t = <<>> \/ Head(t) \notin DigitSet THEN NaN ELSE ParseDigits(t, 0)

\* what a page context reads of a config: the fields the injector looks at
PageView(cfg) ==
    [enabled |-> cfg.enabled, globalWhitelist |-> cfg.globalWhitelist,
     features |-> cfg.features]

\* variant: a fallback with global protection off
InjectorDefaults_disabled ==
    [enabled |-> FALSE, globalWhitelist |-> EmptyStr,
     features |-> [f \in FeatureIds |-> Section(TRUE, EmptyStr)]]

\* the hardcoded fallback of the injector
InjectorDefaults ==
    [enabled |-> TRUE, globalWhitelist |-> EmptyStr,
     features |-> [f \in FeatureIds |-> Section(TRUE, EmptyStr)]]

\* value of sessionStorage[CONFIG_CACHE_KEY]: nothing, a string JSON.parse throws
\* on, or the JSON of an object with its _version
AbsentBlob == [kind |-> "absent", version |-> "", cfg |-> InjectorDefaults]

GarbageBlob == [kind |-> "garbage", version |-> "", cfg |-> InjectorDefaults]

\* JSON.stringify({...config, _version}): a field whose value is undefined is dropped,
\* so 'globalWhitelist' in JSON.parse(blob) is  cfg.globalWhitelist # NullStr
Stringify(cfg, version) == [kind |-> "object", version |-> version, cfg |-> PageView(cfg)]

HasGlobalWhitelistField(blob) == blob.cfg.globalWhitelist # NullStr

\* variant: the version tag is not compared
CacheAccepted_anyVersion(storageWorks, blob) ==
    /\ storageWorks
    /\ blob.kind = "object"
    /\ HasGlobalWhitelistField(blob)

\* the cache read: TRUE when the blob becomes the config of the context
CacheAccepted(storageWorks, blob) ==
    /\ storageWorks
    /\ blob.kind = "object"
    /\ blob.version = CONFIG_VERSION
    /\ HasGlobalWhitelistField(blob)

\* variant: a refresh only once the elapsed time exceeds the TTL
shouldRefreshCache_strict(storageWorks, tsItem, t) ==
    IF ~storageWorks THEN TRUE
    ELSE LET lastRefreshTs == parseInt(IF Truthy(tsItem) THEN tsItem ELSE <<"0">>)
         IN lastRefreshTs = NaN \/ t - lastRefreshTs > CONFIG_CACHE_REFRESH_TTL_MS

\* shouldRefreshCache; tsItem is sessionStorage[CONFIG_CACHE_REFRESH_TS_KEY]
shouldRefreshCache(storageWorks, tsItem, t) ==
    IF ~storageWorks THEN TRUE
    ELSE LET lastRefreshTs == parseInt(IF Truthy(tsItem) THEN tsItem ELSE <<"0">>)
         IN lastRefreshTs = NaN \/ t - lastRefreshTs >= CONFIG_CACHE_REFRESH_TTL_MS

\* freshConfig of the refresh callback: stored fields, else those of the context
FreshConfig(stored, config) ==
    [enabled |-> IF stored.present THEN stored.cfg.enabled ELSE config.enabled,
     globalWhitelist |->
        IF stored.present /\ stored.cfg.globalWhitelist # NullStr
        THEN stored.cfg.globalWhitelist
        ELSE IF Truthy(config.globalWhitelist) THEN config.globalWhitelist ELSE EmptyStr,
     features |-> IF stored.present THEN stored.cfg.features ELSE config.features]

hasEnabledFeatures(config) ==
    \E f \in DOMAIN config.features :
        config.features[f].present /\ config.features[f].enabled

CHALLENGE_DOMAIN ==
    <<"c","h","a","l","l","e","n","g","e","s",".",
      "c","l","o","u","d","f","l","a","r","e",".","c","o","m">>

IsChallengeHostname(h) == h = CHALLENGE_DOMAIN \/ EndsWith(h, <<".">> \o CHALLENGE_DOMAIN)

\* TRUE when the injector runs past its early returns and reaches the registration
\* of the config-updated listener
ReachesListener(config, url) ==
    LET hostname == extractHostname(url)
    IN  /\ config.enabled
        /\ hasEnabledFeatures(config)
        /\ ~IsChallengeHostname(UrlHostname(url))
        /\ ~(  Truthy(config.globalWhitelist)
            /\ Trim(config.globalWhitelist) # EmptyStr
            /\ Truthy(hostname)
            /\ isWhitelisted(hostname, config.globalWhitelist))

\* the injector passes its early returns and goes on to inject the page protections
InjectsProtections(config, url) ==
    /\ config.enabled
    /\ hasEnabledFeatures(config)
    /\ ~IsChallengeHostname(UrlHostname(url))
    /\ ~(  Truthy(config.globalWhitelist)
        /\ Trim(config.globalWhitelist) # EmptyStr
        /\ Truthy(extractHostname(url))
        /\ isWhitelisted(extractHostname(url), config.globalWhitelist))

(***************************************************************************)
(* Proxy adapter: applyProxySettings and the generated PAC script          *)
(***************************************************************************)
\* shExpMatch(str, glob) of the PAC runtime: * is any run of characters, ? is one
RECURSIVE shExpMatch(_, _)
shExpMatch(str, glob) ==
    IF glob = <<>> THEN str = <<>>
    ELSE IF Head(glob) = "*"
         THEN shExpMatch(str, Tail(glob)) \/ (str # <<>> /\ shExpMatch(Tail(str), glob))
         ELSE /\ str # <<>>
              /\ (Head(glob) = "?" \/ Head(glob) = Head(str))
              /\ shExpMatch(Tail(str), Tail(glob))

\* parsePatternList of a string: split, trim, lower-case, drop the empty tokens
parsePatternList(value) ==
    IF ~Truthy(value) THEN <<>>
    ELSE LET parts == Split(value, ",")
         IN FilterNonEmpty([i \in 1..Len(parts) |-> ToLowerCase(Trim(parts[i]))])

\* the condition buildPatternCheck(pattern) writes into the PAC script
buildPatternCheck(host, pattern) ==
    IF EndsWith(pattern, <<".", "*">>)
    THEN shExpMatch(host, pattern)
    ELSE IF StartsWith(pattern, <<"*", ".">>)
    THEN LET domain == SubSeq(pattern, 3, Len(pattern))
         IN host = domain \/ shExpMatch(host, <<"*", ".">> \o domain)
    ELSE IF StartsWith(pattern, <<"*">>)
    THEN LET domain == SubSeq(pattern, 2, Len(pattern))
         IN host = domain \/ shExpMatch(host, <<"*", ".">> \o domain)
    ELSE IF Includes(pattern, <<"*">>)
    THEN shExpMatch(host, pattern)
    ELSE host = pattern \/ host = <<"w", "w", "w", ".">> \o pattern

\* the condition buildRouteCheck(pattern) writes into the PAC script
buildRouteCheck(host, pattern) ==
    IF StartsWith(pattern, <<"*", ".">>)
    THEN LET domain == SubSeq(pattern, 3, Len(pattern))
         IN host = domain \/ shExpMatch(host, <<"*", ".">> \o domain)
    ELSE IF EndsWith(pattern, <<".", "*">>)
    THEN shExpMatch(host, pattern)
    ELSE IF StartsWith(pattern, <<"*">>)
    THEN LET domain == SubSeq(pattern, 2, Len(pattern))
         IN host = domain \/ shExpMatch(host, <<"*", ".">> \o domain)
    ELSE IF Includes(pattern, <<"*">>)
    THEN shExpMatch(host, pattern)
    ELSE host = pattern \/ host = <<"w", "w", "w", ".">> \o pattern

\* value given to chrome.proxy.settings.set; for pac_script the arguments the
\* script was generated from stand for its text
SystemMode ==
    [mode |-> "system", globalWhitelist |-> EmptyStr, profiles |-> {},
     domainRoutes |-> <<>>, activeProfile |-> ""]

FixedServers(profile) ==
    [mode |-> "fixed_servers", globalWhitelist |-> EmptyStr, profiles |-> {profile},
     domainRoutes |-> <<>>, activeProfile |-> profile]

generatePACScript(profiles, routes, defaultProfile, globalWhitelist) ==
    [mode |-> "pac_script", globalWhitelist |-> globalWhitelist, profiles |-> profiles,
     domainRoutes |-> routes, activeProfile |-> defaultProfile]

RECURSIVE FirstRoute(_, _, _)
FirstRoute(host, routes, profiles) ==
    IF routes = <<>> THEN ""
    ELSE IF Head(routes).profile \in profiles
            /\ buildRouteCheck(host, ToLowerCase(Head(routes).pattern))
         THEN Head(routes).profile
         ELSE FirstRoute(host, Tail(routes), profiles)

\* FindProxyForURL(url, host) of the generated script: "DIRECT" or a profile name
FindProxyForURL(pac, host0) ==
    LET host     == ToLowerCase(host0)
        patterns == parsePatternList(pac.globalWhitelist)
        route    == FirstRoute(host, pac.domainRoutes, pac.profiles)
    IN IF \E i \in 1..Len(patterns) : buildPatternCheck(host, patterns[i]) THEN "DIRECT"
       ELSE IF route # "" THEN route
       ELSE IF pac.activeProfile # "" /\ pac.activeProfile \in pac.profiles
            THEN pac.activeProfile
            ELSE "DIRECT"

\* TRUE when a request to host leaves through a proxy under the applied settings
RoutesThroughProxy(applied, host) ==
    CASE applied.mode = "system" -> FALSE
      [] applied.mode = "fixed_servers" -> TRUE
      [] applied.mode = "pac_script" -> FindProxyForURL(applied, host) # "DIRECT"

applyProxySettings_ignoresAllowlist(config) ==
    LET routes        == config.proxy.domainRoutes
        activeProfile == config.proxy.activeProfile
    IN IF config.enabled = FALSE THEN [set |-> TRUE, value |-> SystemMode]
       ELSE IF ~config.proxy.enabled THEN [set |-> TRUE, value |-> SystemMode]
       ELSE IF routes = <<>> /\ activeProfile = "" THEN [set |-> TRUE, value |-> SystemMode]
       ELSE IF routes = <<>>
       THEN IF activeProfile \in config.proxy.profiles
            THEN [set |-> TRUE, value |-> FixedServers(activeProfile)]
            ELSE [set |-> FALSE, value |-> SystemMode]
       ELSE [set |-> TRUE,
             value |-> generatePACScript(config.proxy.profiles, routes, activeProfile,
                                         config.globalWhitelist)]

\* applyProxySettings() after its loadConfig(): the settings it sets, or none
applyProxySettings(config) ==
    LET routes        == config.proxy.domainRoutes
        activeProfile == config.proxy.activeProfile
        hasGlobalWhitelist ==
            config.globalWhitelist # NullStr /\ Trim(config.globalWhitelist) # EmptyStr
    IN IF config.enabled = FALSE THEN [set |-> TRUE, value |-> SystemMode]
       ELSE IF ~config.proxy.enabled THEN [set |-> TRUE, value |-> SystemMode]
       ELSE IF routes = <<>> /\ activeProfile = "" THEN [set |-> TRUE, value |-> SystemMode]
       ELSE IF routes = <<>> /\ activeProfile # "" /\ ~hasGlobalWhitelist
       THEN IF activeProfile \in config.proxy.profiles
            THEN [set |-> TRUE, value |-> FixedServers(activeProfile)]
            ELSE [set |-> FALSE, value |-> SystemMode]
       ELSE [set |-> TRUE,
             value |-> generatePACScript(config.proxy.profiles, routes, activeProfile,
                                         config.globalWhitelist)]

(***************************************************************************)
(* State                                                                   *)
(***************************************************************************)
VARIABLES
    dfConfig,             \* DomainFilter: this.config
    dfCall,               \* DomainFilter: the last call and its result
    allowlist,            \* config.globalWhitelist as the allowlist commands edit it
    libCall,              \* DomainFilter: the last matcher or allowlist call
    optionsConfig,        \* options page: currentConfig
    now,                  \* Date.now()
    ticks,                \* number of clock advances so far
    turnstileTimestamps,  \* { hostname: timestamp }
    accepted,             \* hostname -> time of its last accepted detection
    effects,              \* side-effect chains of accepted detections in progress
    sessionFlag,          \* tab id -> value of the session flag in that tab (0: unset)
    lastOp,               \* the last step of the bypass coordinator and its response
    currentConfig,        \* background.js: currentConfig
    storedConfig,         \* chrome.storage.local["stealth-guard-config"]
    handlers,             \* update-config handlers that are awaiting a call
    pushes,               \* config-updated messages on their way to a tab
    updates,              \* number of update-config requests so far
    tabUrl,               \* tab id -> URL of the page the tab shows
    lastEv,               \* the last step of the orchestrator or of a page context
    sessionCache,         \* tab id -> sessionStorage[CONFIG_CACHE_KEY]
    refreshTs,            \* tab id -> sessionStorage[CONFIG_CACHE_REFRESH_TS_KEY]
    storageWorks,         \* tab id -> FALSE when sessionStorage throws on access
    contexts,             \* page contexts: the outcome of their injector run
    reads,                \* chrome.storage.local.get calls of the injector in progress
    appliedProxy,         \* the value last set with chrome.proxy.settings.set
    proxyDisabledForWhitelist,
    pendingProxyDisableTabId,
    tasks,                \* proxy calls of the navigation listeners in progress
    navs,                 \* tab id -> the main-frame navigation in progress
    activeTab,            \* the tab that is active in the window
    navCount,             \* number of navigations started by the user so far
    triggeredFeaturesPerTab,  \* tab id -> { hostname, features } or no entry
    signalLog,            \* the signals, URL changes and closings of the tabs so far
    featuresReply         \* the last response to get-triggered-features

polVars == <<dfConfig, dfCall, allowlist, libCall, optionsConfig>>

timeVars == <<now, ticks>>

bypState == <<turnstileTimestamps, accepted, effects, sessionFlag, lastOp>>

bypVars == <<timeVars, bypState>>

orchVars == <<currentConfig, storedConfig, handlers, pushes, updates, tabUrl, lastEv>>

cacheVars == <<sessionCache, refreshTs, storageWorks, contexts, reads>>

proxyState == <<proxyDisabledForWhitelist, pendingProxyDisableTabId, tasks, navs,
                activeTab, navCount>>

proxyVars == <<appliedProxy, proxyState>>

ledgerVars == <<triggeredFeaturesPerTab, signalLog, featuresReply>>

\* everything but the bypass coordinator and the clock
restVars == <<polVars, orchVars, cacheVars, proxyVars, ledgerVars>>

vars == <<polVars, bypVars, orchVars, cacheVars, proxyVars, ledgerVars>>

(***************************************************************************)
(* Bounds                                                                  *)
(***************************************************************************)
StartTime == 5000

MaxTicks == 2

\* clock advances: the reload delay, and the time that is left of the TTL after it
TickSteps == {TURNSTILE_RELOAD_DELAY_MS, TURNSTILE_BYPASS_TTL_MS - TURNSTILE_RELOAD_DELAY_MS}

(***************************************************************************)
(* Policy engine: specification                                            *)
(***************************************************************************)
NoCall == [op |-> "none", url |-> NullStr, feature |-> "", result |-> FALSE,
           matcherCalls |-> 0]

NoOp == [op |-> "none", host |-> NullStr, at |-> 0, tab |-> 0,
         success |-> FALSE, ignored |-> FALSE, error |-> "",
         skipUA |-> FALSE, remainingSeconds |-> 0,
         active |-> FALSE, matchedDomain |-> NullStr, remainingMs |-> 0,
         rewritten |-> FALSE, injected |-> FALSE, disabled |-> FALSE, features |-> {},
         url |-> NullStr, policy |-> ""]

BypassTabs == {1}

NoEntry == [present |-> FALSE, hostname |-> NullStr, features |-> {}]

NoReply == [tabId |-> 0, features |-> {}]

IdleLedger ==
    /\ triggeredFeaturesPerTab = [t \in {1, 2} |-> NoEntry]
    /\ signalLog = <<>>
    /\ featuresReply = NoReply

IdleBypass ==
    /\ now = StartTime
    /\ ticks = 0
    /\ turnstileTimestamps = <<>>
    /\ accepted = <<>>
    /\ effects = {}
    /\ sessionFlag = [t \in BypassTabs |-> 0]
    /\ lastOp = NoOp

NoLibCall == [fn |-> "none", hostname |-> NullStr, whitelist |-> NullStr,
              result |-> FALSE, returned |-> NullStr]

IdleLib ==
    /\ allowlist = EmptyStr
    /\ libCall = NoLibCall
    /\ optionsConfig = DEFAULT_CONFIG

IdlePolicy ==
    /\ dfConfig = [enabled |-> TRUE, globalWhitelist |-> EmptyStr,
                   features |-> [f \in FeatureIds |-> Section(TRUE, EmptyStr)]]
    /\ dfCall = NoCall
    /\ IdleLib

Tabs == {1, 2}

Contexts == {1, 2, 3}

\* contexts 1 and 2 are the page of tab 1 and a same-origin frame in it, and share
\* its sessionStorage; context 3 is the page of tab 2
CtxTab(c) == IF c = 3 THEN 2 ELSE 1

NoEv == [op |-> "none", id |-> 0, host |-> NullStr, ok |-> FALSE, refresh |-> FALSE]

Ev(op, id) == [NoEv EXCEPT !.op = op, !.id = id]

NoContext == [alive |-> FALSE, listening |-> FALSE, config |-> InjectorDefaults]

NoNav == [stage |-> "none", url |-> NullStr, reapplied |-> FALSE]

IdleOrch ==
    /\ storedConfig = NoStored
    /\ currentConfig = DEFAULT_CONFIG
    /\ handlers = {}
    /\ pushes = {}
    /\ updates = 0
    /\ tabUrl = [t \in Tabs |-> U_about_blank]
    /\ lastEv = NoEv

IdleCache ==
    /\ sessionCache = [t \in Tabs |-> AbsentBlob]
    /\ refreshTs = [t \in Tabs |-> NullStr]
    /\ storageWorks = [t \in Tabs |-> TRUE]
    /\ contexts = [c \in Contexts |-> NoContext]
    /\ reads = {}

IdleProxy ==
    /\ appliedProxy = SystemMode
    /\ proxyDisabledForWhitelist = FALSE
    /\ pendingProxyDisableTabId = 0
    /\ tasks = {}
    /\ navs = [t \in Tabs |-> NoNav]
    /\ activeTab = 1
    /\ navCount = 0

\* new DomainFilter(config)
InitPolicy ==
    /\ IdleLedger
    /\ dfConfig \in PolicyConfigs
    /\ dfCall = NoCall
    /\ IdleLib
    /\ IdleBypass
    /\ IdleOrch
    /\ IdleCache
    /\ IdleProxy

\* filter.shouldActivateFeature(url, featureName)
ShouldActivateFeature(url, featureName) ==
    /\ dfCall' = [op |-> "shouldActivateFeature", url |-> url, feature |-> featureName,
                  result |-> shouldActivateFeature(dfConfig, url, featureName),
                  matcherCalls |-> shouldActivateFeatureCalls(dfConfig, url, featureName)]
    /\ UNCHANGED <<dfConfig, allowlist, libCall, optionsConfig, ledgerVars>>
    /\ UNCHANGED <<bypVars, orchVars, cacheVars, proxyVars>>

NextPolicy ==
    \E url \in PolicyUrls, f \in FeatureArgs : ShouldActivateFeature(url, f)

SpecPolicy == InitPolicy /\ [][NextPolicy]_vars

(***************************************************************************)
(* Matcher and allowlist commands: specification.  The allowlist is the    *)
(* globalWhitelist string that the context menu and the add-to-whitelist / *)
(* remove-from-whitelist messages rewrite with the DomainFilter helpers.   *)
(***************************************************************************)
H_EXAMPLE_upper == <<"E","x","a","m","p","l","e",".","C","O","M">>

P_star_example_com == <<"*">> \o H_example_com

P_example_dot_star == <<"e","x","a","m","p","l","e",".","*">>

H_localhost == <<"l","o","c","a","l","h","o","s","t">>

H_foo_localhost_bar == <<"f","o","o","-">> \o H_localhost \o <<"-","b","a","r">>

P_star_localhost_star == <<"*">> \o H_localhost \o <<"*">>

P_blank == <<" ", " ">>

\* the hostname of http://www./
H_www_dot == <<"w","w","w",".">>

\* an allowlist of separators and blanks
L_blank_tokens == <<" ", ",", " ", " ", ",">>

\* hostnames as new URL(tab.url).hostname and request.domain deliver them; the
\* empty one is the hostname of a file: or about: page
LibHostnames ==
    {H_example_com, H_www_example_com, H_sub_example_com, H_EXAMPLE_upper,
     H_other_com, H_localhost, H_foo_localhost_bar, P_star_example_com,
     <<"e","x","a","m","p","l","e",".","o","r","g">>, EmptyStr, H_www_dot}

LibPatterns ==
    {H_example_com, H_EXAMPLE_upper, H_www_example_com, P_star_dot_example_com,
     P_star_example_com, P_example_dot_star, H_localhost, P_star_localhost_star,
     EmptyStr, P_blank}

EditDomains == {H_example_com, H_EXAMPLE_upper, H_other_com, EmptyStr}

\* allowlists as the options page stores them: the user types the string
LibAllowlists ==
    {NullStr, EmptyStr, H_example_com, P_star_dot_example_com, P_list_other_example,
     H_other_com \o <<",">> \o H_example_com,
     H_EXAMPLE_upper \o <<","," ">> \o P_star_dot_example_com \o <<" ",",">> \o H_other_com,
     P_star_localhost_star \o <<","," ">> \o H_other_com,
     L_blank_tokens}

MaxTokens == 3

Tokens(whitelistString) ==
    IF whitelistString = NullStr THEN <<>> ELSE ParsePatterns(whitelistString)

InitLib ==
    /\ IdleLedger
    /\ allowlist \in LibAllowlists
    /\ libCall = NoLibCall
    /\ optionsConfig = DEFAULT_CONFIG
    /\ dfConfig = [enabled |-> TRUE, globalWhitelist |-> EmptyStr,
                   features |-> [f \in FeatureIds |-> Section(TRUE, EmptyStr)]]
    /\ dfCall = NoCall
    /\ IdleBypass
    /\ IdleOrch
    /\ IdleCache
    /\ IdleProxy

\* filter.matchesPattern(hostname, pattern)
MatchesPattern(hostname, pattern) ==
    /\ libCall' = [fn |-> "matchesPattern", hostname |-> hostname, whitelist |-> pattern,
                   result |-> matchesPattern(hostname, pattern), returned |-> NullStr]
    /\ UNCHANGED <<dfConfig, dfCall, allowlist, optionsConfig, ledgerVars>>
    /\ UNCHANGED <<bypVars, orchVars, cacheVars, proxyVars>>

\* filter.isWhitelisted(hostname, config.globalWhitelist)
IsWhitelisted(hostname) ==
    /\ libCall' = [fn |-> "isWhitelisted", hostname |-> hostname, whitelist |-> allowlist,
                   result |-> isWhitelisted(hostname, allowlist), returned |-> NullStr]
    /\ UNCHANGED <<dfConfig, dfCall, allowlist, optionsConfig, ledgerVars>>
    /\ UNCHANGED <<bypVars, orchVars, cacheVars, proxyVars>>

\* config.globalWhitelist = filter.addDomainToWhitelist(domain, config.globalWhitelist)
AddDomain(domain) ==
    /\ Len(Tokens(allowlist)) < MaxTokens
    /\ allowlist' = addDomainToWhitelist(domain, allowlist)
    /\ libCall' = [fn |-> "addDomainToWhitelist", hostname |-> domain,
                   whitelist |-> allowlist, result |-> FALSE, returned |-> allowlist']
    /\ UNCHANGED <<dfConfig, dfCall, optionsConfig, bypVars, orchVars, cacheVars, proxyVars, ledgerVars>>

\* config.globalWhitelist = filter.removeDomainFromWhitelist(domain, config.globalWhitelist)
RemoveDomain(domain) ==
    /\ allowlist' = removeDomainFromWhitelist(domain, allowlist)
    /\ libCall' = [fn |-> "removeDomainFromWhitelist", hostname |-> domain,
                   whitelist |-> allowlist, result |-> FALSE, returned |-> allowlist']
    /\ UNCHANGED <<dfConfig, dfCall, optionsConfig, bypVars, orchVars, cacheVars, proxyVars, ledgerVars>>

\* default allowlists of a feature section: none, one entry, several entries
DefaultWhitelists == {EmptyStr, P_star_dot_example_com, P_list_other_example}

\* loadConfig(): mergeWhitelists(DEFAULT_CONFIG[featureName].whitelist, stored list);
\* the call record holds the default list in its hostname field
MergeWhitelists(defaultWhitelist) ==
    /\ libCall' = [fn |-> "mergeWhitelists", hostname |-> defaultWhitelist,
                   whitelist |-> allowlist, result |-> FALSE,
                   returned |-> mergeWhitelists(defaultWhitelist, allowlist)]
    /\ UNCHANGED <<dfConfig, dfCall, allowlist, optionsConfig, ledgerVars>>
    /\ UNCHANGED <<bypVars, orchVars, cacheVars, proxyVars>>

NextLib ==
    \/ \E h \in LibHostnames, p \in LibPatterns : MatchesPattern(h, p)
    \/ \E h \in LibHostnames : IsWhitelisted(h)
    \/ \E d \in EditDomains : AddDomain(d)
    \/ \E d \in EditDomains : RemoveDomain(d)
    \/ \E w \in DefaultWhitelists : MergeWhitelists(w)

SpecLib == InitLib /\ [][NextLib]_vars

(***************************************************************************)
(* Challenge-bypass coordinator: specification                             *)
(***************************************************************************)
\* tab 1 shows example.com, whatever hostname its frames put in the payload; the
\* other sender has no tab and is identified by the payload hostname only
BypassSenders == {Sender(TRUE, 1, U_example_com), Sender(FALSE, 0, NullStr)}

U_challenge == HttpsPrefix \o CHALLENGE_DOMAIN \o <<"/","x">>

U_sub_challenge == HttpsPrefix \o <<"a",".">> \o CHALLENGE_DOMAIN \o <<"/">>

\* URLs of requests and of the documents the injector runs in
RequestUrls == {U_challenge, U_sub_challenge, U_sub_example_com}

BypassPayloadHosts == {NullStr, EmptyStr, H_sub_example_com, H_other_com}

InitBypass ==
    /\ IdleLedger
    /\ IdleBypass
    /\ IdlePolicy
    /\ IdleOrch
    /\ IdleCache
    /\ IdleProxy

\* handleTurnstileDetectedMessage(request, sender)
Detect(sender, requestedHostname) ==
    LET hostname == resolveTabHostname(sender, requestedHostname)
        existing == getExactTurnstileBypass(turnstileTimestamps, hostname, now)
        tabId    == IF sender.hasTab THEN sender.tabId ELSE 0
    IN  /\ IF ~Truthy(hostname)
           THEN /\ lastOp' = [NoOp EXCEPT !.op = "detect", !.host = hostname,
                                          !.tab = tabId,
                                          !.success = FALSE, !.error = "Missing hostname"]
                /\ UNCHANGED <<turnstileTimestamps, accepted, effects>>
           ELSE IF existing.active
           THEN /\ lastOp' = [NoOp EXCEPT !.op = "detect", !.host = hostname,
                                          !.tab = tabId,
                                          !.success = TRUE, !.ignored = TRUE]
                /\ turnstileTimestamps' = existing.map
                /\ UNCHANGED <<accepted, effects>>
           ELSE /\ lastOp' = [NoOp EXCEPT !.op = "detect", !.host = hostname,
                                          !.tab = tabId, !.success = TRUE]
                /\ turnstileTimestamps' =
                      pruneExpiredTurnstileEntries(With(existing.map, hostname, now), now)
                /\ accepted' = With(accepted, hostname, now)
                /\ effects' = effects \cup
                      {[tab |-> tabId, host |-> hostname, ts |-> now, stage |-> "ua", due |-> 0]}
        /\ UNCHANGED <<now, ticks, sessionFlag, restVars>>

\* handleCheckTurnstileStatusMessage(request, sender)
Query(sender, requestedHostname) ==
    LET hostname   == resolveTabHostname(sender, requestedHostname)
        bypassInfo == getTurnstileBypassIncludingParents(turnstileTimestamps, hostname, now)
    IN  /\ turnstileTimestamps' = bypassInfo.map
        /\ lastOp' = [NoOp EXCEPT !.op = "query", !.host = hostname,
                                  !.skipUA = bypassInfo.active,
                                  !.remainingSeconds =
                                      IF bypassInfo.active
                                      THEN CeilSeconds(bypassInfo.remainingMs) ELSE 0,
                                  !.active = bypassInfo.active,
                                  !.matchedDomain = bypassInfo.matchedDomain,
                                  !.remainingMs = bypassInfo.remainingMs]
        /\ UNCHANGED <<now, ticks, accepted, effects, sessionFlag, restVars>>

\* applyUserAgentSpoofing() resolved: .then(() => setTurnstileSessionFlagAndReload(tabId, now))
UAReapplied(e) ==
    /\ e \in effects /\ e.stage = "ua"
    /\ effects' = IF e.tab = 0
                  THEN effects \ {e}
                  ELSE (effects \ {e}) \cup {[e EXCEPT !.stage = "script"]}
    /\ lastOp' = [NoOp EXCEPT !.op = "uaReapplied", !.host = e.host, !.at = e.ts, !.tab = e.tab]
    /\ UNCHANGED <<now, ticks, turnstileTimestamps, accepted, sessionFlag, restVars>>

\* callback of chrome.tabs.executeScript: the flag is written when the script ran,
\* and the reload timer is started in either case
FlagScriptDone(e, ran) ==
    /\ e \in effects /\ e.stage = "script"
    /\ sessionFlag' = IF ran THEN [sessionFlag EXCEPT ![e.tab] = e.ts] ELSE sessionFlag
    /\ effects' = (effects \ {e}) \cup
                  {[e EXCEPT !.stage = "timer", !.due = now + TURNSTILE_RELOAD_DELAY_MS]}
    /\ lastOp' = [NoOp EXCEPT !.op = "flagScriptDone", !.host = e.host, !.at = e.ts,
                              !.tab = e.tab, !.success = ran]
    /\ UNCHANGED <<now, ticks, turnstileTimestamps, accepted, restVars>>

\* the setTimeout callback: chrome.tabs.reload(tabId, { bypassCache: true })
ReloadTimerFired(e) ==
    /\ e \in effects /\ e.stage = "timer"
    /\ now >= e.due
    /\ effects' = effects \ {e}
    /\ lastOp' = [NoOp EXCEPT !.op = "reload", !.host = e.host, !.at = e.ts, !.tab = e.tab]
    /\ UNCHANGED <<now, ticks, turnstileTimestamps, accepted, sessionFlag, restVars>>

\* chrome.webRequest.onBeforeSendHeaders: the listener that applyUserAgentSpoofing
\* registered while config.useragent.enabled
UaListenerCalled(url) ==
    LET r == uaListener(turnstileTimestamps, url, now)
    IN  /\ currentConfig.features["useragent"].present
        /\ currentConfig.features["useragent"].enabled
        /\ turnstileTimestamps' = r.map
        /\ lastOp' = [NoOp EXCEPT !.op = "uaListener", !.host = UrlHostname(url),
                                  !.rewritten = r.rewritten]
        /\ UNCHANGED <<now, ticks, accepted, effects, sessionFlag, restVars>>

\* the injector runs in a document at url of tab 1, with the config it finds in
\* the session cache or its defaults
InjectorRun(url) ==
    LET config == IF CacheAccepted(storageWorks[1], sessionCache[1])
                  THEN sessionCache[1].cfg ELSE InjectorDefaults
    IN  /\ lastOp' = [NoOp EXCEPT !.op = "injector", !.host = UrlHostname(url),
                                  !.injected = InjectsProtections(config, url)]
        /\ UNCHANGED <<now, ticks, turnstileTimestamps, accepted, effects, sessionFlag,
                       restVars>>

\* the wall clock advances; the browser completes the calls in progress and fires
\* the timers that are due before a clock step of a second or more has passed
Tick(d) ==
    /\ ticks < MaxTicks
    /\ \A e \in effects : e.stage = "timer" /\ now + d <= e.due
    /\ now' = now + d
    /\ ticks' = ticks + 1
    /\ lastOp' = [NoOp EXCEPT !.op = "tick"]
    /\ UNCHANGED <<turnstileTimestamps, accepted, effects, sessionFlag, restVars>>

NextBypass ==
    \/ \E s \in BypassSenders, h \in BypassPayloadHosts : Detect(s, h)
    \/ \E s \in BypassSenders, h \in BypassPayloadHosts : Query(s, h)
    \/ \E e \in effects : UAReapplied(e)
    \/ \E e \in effects, ran \in BOOLEAN : FlagScriptDone(e, ran)
    \/ \E e \in effects : ReloadTimerFired(e)
    \/ \E d \in TickSteps : Tick(d)

SpecBypass == InitBypass /\ [][NextBypass]_vars


(***************************************************************************)
(* Challenge-bypass coordinator: detections from a page and from its       *)
(* subdomain                                                               *)
(***************************************************************************)
\* content scripts of tab 1, which shows example.com or sub.example.com; the
\* hostname of the payload is the frame's own
RedetectSenders == {Sender(TRUE, 1, U_example_com), Sender(TRUE, 1, U_sub_example_com)}

NextRedetect ==
    \/ \E s \in RedetectSenders : Detect(s, H_sub_example_com)
    \/ \E s \in RedetectSenders : Query(s, H_sub_example_com)
    \/ \E e \in effects : UAReapplied(e)
    \/ \E e \in effects, ran \in BOOLEAN : FlagScriptDone(e, ran)
    \/ \E e \in effects : ReloadTimerFired(e)
    \/ \E d \in TickSteps : Tick(d)

SpecRedetect == InitBypass /\ [][NextRedetect]_vars

(***************************************************************************)
(* Challenge-service exemption: requests and documents of the challenge    *)
(* host next to the detections that fill the bypass map                    *)
(***************************************************************************)
\* a detection names the page of tab 1, a frame of it, or the challenge frame itself
ChallengePayloadHosts == {H_sub_example_com, CHALLENGE_DOMAIN}

NextChallenge ==
    \/ \E s \in BypassSenders, h \in ChallengePayloadHosts : Detect(s, h)
    \/ \E e \in effects : UAReapplied(e)
    \/ \E e \in effects, ran \in BOOLEAN : FlagScriptDone(e, ran)
    \/ \E e \in effects : ReloadTimerFired(e)
    \/ \E url \in RequestUrls : UaListenerCalled(url)
    \/ \E url \in RequestUrls : InjectorRun(url)
    \/ \E d \in TickSteps : Tick(d)

SpecChallenge == InitBypass /\ [][NextChallenge]_vars

(***************************************************************************)
(* Orchestrator: update-config and the config-updated broadcast            *)
(***************************************************************************)
MaxUpdates == 1

MaxInFlight == 1

\* A handler holds a reference to a config object: next is the value of the object,
\* obj its identity (the id of the request that first held it), cur tells whether
\* currentConfig refers to the same object, written is what saveConfig serialized
\* when the handler called it.

\* setCurrentConfig(config) for the handlers hs that are awaiting: the holders of
\* the object obj hold the current config, the others do not
MadeCurrent(hs, obj) == {[k EXCEPT !.cur = (k.obj = obj)] : k \in hs}

\* handleUpdateConfigMessage(request) up to its first await that leaves the
\* orchestrator: nothing happens when the serialized configs are equal, else the
\* handler waits for saveConfig(nextConfig)
UpdateConfig(nextConfig) ==
    LET previousConfig == currentConfig
        globalEnabledChanged == previousConfig.enabled # nextConfig.enabled
        globalWhitelistChanged ==
            previousConfig.globalWhitelist # nextConfig.globalWhitelist
        proxyChanged == \/ previousConfig.proxy # nextConfig.proxy
                        \/ globalWhitelistChanged
                        \/ globalEnabledChanged
    IN  /\ updates < MaxUpdates
        /\ Cardinality(handlers) < MaxInFlight
        /\ updates' = updates + 1
        /\ handlers' = IF previousConfig = nextConfig THEN handlers
                       ELSE handlers \cup {[id |-> updates + 1, next |-> nextConfig,
                                            proxyChanged |-> proxyChanged, pc |-> "save",
                                            decision |-> SystemMode,
                                            obj |-> updates + 1, cur |-> FALSE,
                                            written |-> nextConfig]}
        /\ lastEv' = [Ev("update", updates + 1) EXCEPT !.ok = previousConfig # nextConfig]
        /\ UNCHANGED <<currentConfig, storedConfig, pushes, tabUrl>>
        /\ UNCHANGED <<polVars, ledgerVars, bypVars, cacheVars, proxyVars>>

\* saveConfig resolved: setCurrentConfig(nextConfig); the handler then awaits the
\* User-Agent and WebRTC reapplication and, if the proxy input changed, the
\* loadConfig() of applyProxySettings()
SaveDone(h) ==
    /\ h \in handlers /\ h.pc = "save"
    /\ storedConfig' = Stored(h.written)
    /\ currentConfig' = h.next
    /\ handlers' = MadeCurrent((handlers \ {h}) \cup
                               {[h EXCEPT !.pc = IF h.proxyChanged THEN "load"
                                                 ELSE "broadcast"]}, h.obj)
    /\ lastEv' = Ev("saved", h.id)
    /\ UNCHANGED <<pushes, updates, tabUrl>>
    /\ UNCHANGED <<polVars, ledgerVars, bypVars, cacheVars, proxyVars>>

\* loadConfig() of applyProxySettings() resolved: the settings are chosen from the
\* stored config and chrome.proxy.settings.set is called (or nothing is set)
ApplyLoaded(h) ==
    LET d == applyProxySettings(loadConfig(storedConfig))
    IN  /\ h \in handlers /\ h.pc = "load"
        /\ handlers' = (handlers \ {h}) \cup
                       {[h EXCEPT !.pc = IF d.set THEN "set" ELSE "broadcast",
                                  !.decision = d.value]}
        /\ lastEv' = Ev("applyLoaded", h.id)
        /\ UNCHANGED <<currentConfig, storedConfig, pushes, updates, tabUrl>>
        /\ UNCHANGED <<polVars, ledgerVars, bypVars, cacheVars, proxyVars>>

\* chrome.proxy.settings.set of applyProxySettings() resolved
ApplySetDone(h) ==
    /\ h \in handlers /\ h.pc = "set"
    /\ appliedProxy' = h.decision
    /\ handlers' = (handlers \ {h}) \cup {[h EXCEPT !.pc = "broadcast"]}
    /\ lastEv' = Ev("applySet", h.id)
    /\ UNCHANGED <<currentConfig, storedConfig, pushes, updates, tabUrl>>
    /\ UNCHANGED <<polVars, ledgerVars, bypVars, cacheVars, proxyState>>

\* broadcastConfigUpdated(nextConfig): chrome.tabs.query resolved, one message is
\* sent to each tab that shows an http(s) page
TabsQueried(h) ==
    /\ h \in handlers /\ h.pc = "broadcast"
    /\ pushes' = pushes \cup {[tab |-> t, id |-> h.id, config |-> h.next] :
                              t \in {u \in Tabs : IsHttpUrl(tabUrl[u])}}
    /\ handlers' = handlers \ {h}
    /\ lastEv' = Ev("broadcast", h.id)
    /\ UNCHANGED <<currentConfig, storedConfig, updates, tabUrl>>
    /\ UNCHANGED <<polVars, ledgerVars, bypVars, cacheVars, proxyVars>>

\* TRUE when some context of the tab runs the config-updated listener and can
\* write its sessionStorage
TabListens(t) ==
    /\ storageWorks[t]
    /\ \E c \in Contexts : CtxTab(c) = t /\ contexts[c].alive /\ contexts[c].listening

\* the message reaches the frames of the tab: each context that registered the
\* config-updated listener writes { ...request.config, _version } to the cache
PushDelivered(p) ==
    /\ p \in pushes
    /\ pushes' = pushes \ {p}
    /\ sessionCache' = IF TabListens(p.tab)
                       THEN [sessionCache EXCEPT ![p.tab] = Stringify(p.config, CONFIG_VERSION)]
                       ELSE sessionCache
    /\ lastEv' = Ev("push", p.tab)
    /\ UNCHANGED <<currentConfig, storedConfig, handlers, updates, tabUrl>>
    /\ UNCHANGED <<refreshTs, storageWorks, contexts, reads>>
    /\ UNCHANGED <<polVars, ledgerVars, bypVars, proxyVars>>

(***************************************************************************)
(* Page contexts: specification of the session cache                       *)
(***************************************************************************)
MaxCacheTicks == 2

\* clock advances around the refresh TTL
CacheTickSteps == {1, CONFIG_CACHE_REFRESH_TTL_MS - 1}

Disabled(cfg) == [cfg EXCEPT !.enabled = FALSE]

Allowing(cfg, gw) == [cfg EXCEPT !.globalWhitelist = gw]

NoFeatures(cfg) == [cfg EXCEPT !.features = [f \in FeatureIds |-> Section(FALSE, EmptyStr)]]

CacheConfigs ==
    {DEFAULT_CONFIG, Disabled(DEFAULT_CONFIG), Allowing(DEFAULT_CONFIG, H_example_com),
     NoFeatures(DEFAULT_CONFIG)}

\* what the sessionStorage of tab 1 may hold when the first context of the model
\* starts: nothing, text that is no JSON (the page shares the storage and wrote both
\* keys), the cache of an older release, a current-version object without the
\* globalWhitelist field, or a current cache.  Tab 2 shows a page whose
\* sessionStorage throws on every access
InitBlobs ==
    {AbsentBlob, GarbageBlob,
     Stringify(Disabled(DEFAULT_CONFIG), "1.0.1"),
     Stringify(Allowing(Disabled(DEFAULT_CONFIG), NullStr), CONFIG_VERSION),
     Stringify(Disabled(DEFAULT_CONFIG), CONFIG_VERSION)}

InitCache ==
    /\ IdleLedger
    /\ IdlePolicy
    /\ IdleBypass
    /\ IdleProxy
    /\ storedConfig \in {NoStored} \cup {Stored(cfg) : cfg \in CacheConfigs}
    /\ currentConfig = loadConfig(storedConfig)
    /\ handlers = {}
    /\ pushes = {}
    /\ updates = 0
    /\ tabUrl = [t \in Tabs |-> IF t = 1 THEN U_example_com ELSE U_other_com]
    /\ lastEv = NoEv
    /\ sessionCache \in {[t \in Tabs |-> IF t = 1 THEN b ELSE AbsentBlob] : b \in InitBlobs}
    /\ refreshTs = [t \in Tabs |-> IF t = 1 /\ sessionCache[t].kind = "garbage"
                                    THEN <<"x">> ELSE NullStr]
    /\ storageWorks = [t \in Tabs |-> t = 1]
    /\ contexts = [c \in Contexts |-> NoContext]
    /\ reads = {}

\* one run of the injector in a new document of context c, up to the registration
\* of its listeners: cache read, fallback, throttled refresh, early returns
InjectorInit(c) ==
    LET t       == CtxTab(c)
        works   == storageWorks[t]
        fromCache == CacheAccepted(works, sessionCache[t])
        config  == IF fromCache THEN sessionCache[t].cfg ELSE InjectorDefaults
        refresh == shouldRefreshCache(works, refreshTs[t], now)
    IN  /\ refreshTs' = IF refresh /\ works
                        THEN [refreshTs EXCEPT ![t] = String(now)]
                        ELSE refreshTs
        /\ reads' = {r \in reads : r.ctx # c} \cup
                    (IF refresh
                     THEN {[ctx |-> c, config |-> config, stage |-> "issued",
                            result |-> NoStored]}
                     ELSE {})
        /\ contexts' = [contexts EXCEPT ![c] =
                          [alive |-> TRUE,
                           listening |-> ReachesListener(config, tabUrl[t]),
                           config |-> config]]
        /\ lastEv' = [Ev("init", c) EXCEPT !.ok = fromCache, !.refresh = refresh]
        /\ UNCHANGED <<sessionCache, storageWorks>>
        /\ UNCHANGED <<currentConfig, storedConfig, handlers, pushes, updates, tabUrl>>
        /\ UNCHANGED <<polVars, ledgerVars, bypVars, proxyVars>>

\* chrome.storage.local answers the get of the injector
ReadServed(r) ==
    /\ r \in reads /\ r.stage = "issued"
    /\ reads' = (reads \ {r}) \cup {[r EXCEPT !.stage = "served", !.result = storedConfig]}
    /\ lastEv' = Ev("served", r.ctx)
    /\ UNCHANGED <<sessionCache, refreshTs, storageWorks, contexts>>
    /\ UNCHANGED <<currentConfig, storedConfig, handlers, pushes, updates, tabUrl>>
    /\ UNCHANGED <<polVars, ledgerVars, bypVars, proxyVars>>

\* the callback of the get: freshConfig is written to the cache
ReadDone(r) ==
    LET t == CtxTab(r.ctx)
    IN  /\ r \in reads /\ r.stage = "served"
        /\ reads' = reads \ {r}
        /\ sessionCache' = IF storageWorks[t]
                           THEN [sessionCache EXCEPT ![t] =
                                   Stringify(FreshConfig(r.result, r.config), CONFIG_VERSION)]
                           ELSE sessionCache
        /\ lastEv' = Ev("refreshed", r.ctx)
        /\ UNCHANGED <<refreshTs, storageWorks, contexts>>
        /\ UNCHANGED <<currentConfig, storedConfig, handlers, pushes, updates, tabUrl>>
        /\ UNCHANGED <<polVars, ledgerVars, bypVars, proxyVars>>

\* the clock advances once the calls and messages in progress have completed
CacheTick(d) ==
    /\ ticks < MaxCacheTicks
    /\ reads = {} /\ handlers = {} /\ pushes = {}
    /\ now' = now + d
    /\ ticks' = ticks + 1
    /\ lastEv' = Ev("tick", 0)
    /\ UNCHANGED <<currentConfig, storedConfig, handlers, pushes, updates, tabUrl>>
    /\ UNCHANGED <<polVars, ledgerVars, bypState, cacheVars, proxyVars>>

NextCache ==
    \/ \E c \in Contexts : InjectorInit(c)
    \/ \E r \in reads : ReadServed(r)
    \/ \E r \in reads : ReadDone(r)
    \/ \E d \in CacheTickSteps : CacheTick(d)

SpecCache == InitCache /\ [][NextCache]_vars

(***************************************************************************)
(* Config distribution: update-config, broadcast and the page contexts     *)
(***************************************************************************)
InitPush ==
    /\ IdleLedger
    /\ IdlePolicy
    /\ IdleBypass
    /\ IdleProxy
    /\ storedConfig \in {NoStored, Stored(Disabled(DEFAULT_CONFIG))}
    /\ currentConfig = loadConfig(storedConfig)
    /\ handlers = {}
    /\ pushes = {}
    /\ updates = 0
    /\ tabUrl = [t \in Tabs |-> IF t = 1 THEN U_example_com ELSE U_other_com]
    /\ lastEv = NoEv
    /\ sessionCache = [t \in Tabs |-> AbsentBlob]
    /\ refreshTs = [t \in Tabs |-> NullStr]
    /\ storageWorks = [t \in Tabs |-> t = 1]
    /\ contexts = [c \in Contexts |-> NoContext]
    /\ reads = {}

NextPush ==
    \/ \E c \in Contexts : InjectorInit(c)
    \/ \E r \in reads : ReadServed(r)
    \/ \E r \in reads : ReadDone(r)
    \/ \E cfg \in CacheConfigs : UpdateConfig(cfg)
    \/ \E h \in handlers : SaveDone(h)
    \/ \E h \in handlers : ApplyLoaded(h)
    \/ \E h \in handlers : ApplySetDone(h)
    \/ \E h \in handlers : TabsQueried(h)
    \/ \E p \in pushes : PushDelivered(p)

SpecPush == InitPush /\ [][NextPush]_vars

(***************************************************************************)
(* Proxy adapter: navigation listeners and specification                   *)
(***************************************************************************)
ActiveProxy == ProxySection(TRUE, "p1", {"p1"}, <<>>)

\* configs of the proxy scenarios: no proxy, or a fixed proxy profile with an empty
\* global allowlist or with example.com on it
ProxyConfigs ==
    {DEFAULT_CONFIG,
     Config(TRUE, EmptyStr, DEFAULT_CONFIG.features, ActiveProxy),
     Config(TRUE, H_example_com, DEFAULT_CONFIG.features, ActiveProxy)}

NavUrls == {U_example_com, U_other_com}

\* the extension has initialized: currentConfig is loaded and applyProxySettings()
\* has run; the tabs show blank pages
InitProxy ==
    /\ IdleLedger
    /\ IdlePolicy
    /\ IdleBypass
    /\ IdleCache
    /\ storedConfig \in {Stored(cfg) : cfg \in ProxyConfigs}
    /\ currentConfig = loadConfig(storedConfig)
    /\ handlers = {}
    /\ pushes = {}
    /\ updates = 0
    /\ tabUrl = [t \in Tabs |-> U_about_blank]
    /\ lastEv = NoEv
    /\ appliedProxy = applyProxySettings(currentConfig).value
    /\ proxyDisabledForWhitelist = FALSE
    /\ pendingProxyDisableTabId = 0
    /\ tasks = {}
    /\ navs = [t \in Tabs |-> NoNav]
    /\ activeTab = 1
    /\ navCount = 0

\* a call of applyProxySettings() that no handler awaits, at its loadConfig()
ApplyTask == [kind |-> "apply", stage |-> "load", value |-> SystemMode, tab |-> 0,
              url |-> NullStr]

\* variant: the callback of the set call re-navigates no tab
SystemTask_noReplay(tab, url) ==
    [kind |-> "system", stage |-> "set", value |-> SystemMode, tab |-> 0, url |-> NullStr]

\* chrome.proxy.settings.set({mode: 'system'}) in progress; with tab # 0 its
\* callback re-navigates the tab to url
SystemTask(tab, url) ==
    [kind |-> "system", stage |-> "set", value |-> SystemMode, tab |-> tab, url |-> url]

\* hostname of new URL(url), "" when it has none; the listeners ignore a throw
ReenablesProxy(url) ==
    /\ proxyDisabledForWhitelist
    /\ UrlParses(url)
    /\ ~isHostnameOnGlobalAllowlist(UrlHostname(url), currentConfig)

\* the onBeforeNavigate listener that re-enables the proxy, for a main frame
BeforeNavigate(t, url) ==
    /\ IF ReenablesProxy(url)
       THEN /\ proxyDisabledForWhitelist' = FALSE
            /\ tasks' = tasks \cup {ApplyTask}
       ELSE UNCHANGED <<proxyDisabledForWhitelist, tasks>>
    /\ navs' = [navs EXCEPT ![t] = [stage |-> "request", url |-> url,
                                     reapplied |-> ReenablesProxy(url)]]
    /\ lastEv' = Ev("navigate", 0)
    /\ UNCHANGED <<appliedProxy, pendingProxyDisableTabId, activeTab>>
    /\ UNCHANGED <<currentConfig, storedConfig, handlers, pushes, updates, tabUrl>>
    /\ UNCHANGED <<polVars, ledgerVars, bypVars, cacheVars>>

MaxNavs == 2

\* the user starts a main-frame navigation of tab t
UserNavigate(t, url) ==
    /\ navCount < MaxNavs
    /\ navs[t].stage = "none"
    /\ navCount' = navCount + 1
    /\ BeforeNavigate(t, url)

\* chrome.tabs.update(tabId, {url}) of the replay starts the navigation
ReplayNavigate(t) ==
    /\ navs[t].stage = "navigate"
    /\ navCount' = navCount
    /\ BeforeNavigate(t, navs[t].url)

\* the blocking onBeforeRequest listener for the main-frame request of tab t
BeforeRequest(t) ==
    LET url      == navs[t].url
        hostname == UrlHostname(url)
        cancel   == /\ pendingProxyDisableTabId # t
                    /\ currentConfig.proxy.enabled
                    /\ ~proxyDisabledForWhitelist
                    /\ isHostnameOnGlobalAllowlist(hostname, currentConfig)
    IN  /\ navs[t].stage = "request"
        /\ pendingProxyDisableTabId' =
              IF pendingProxyDisableTabId = t THEN 0
              ELSE IF cancel THEN t
              ELSE pendingProxyDisableTabId
        /\ proxyDisabledForWhitelist' = (proxyDisabledForWhitelist \/ cancel)
        /\ tasks' = IF cancel THEN tasks \cup {SystemTask(t, url)} ELSE tasks
        /\ navs' = [navs EXCEPT ![t] = IF cancel THEN NoNav
                                       ELSE [navs[t] EXCEPT !.stage = "commit"]]
        /\ lastEv' = [Ev("request", t) EXCEPT !.host = hostname, !.ok = ~cancel]
        /\ UNCHANGED <<appliedProxy, activeTab, navCount>>
        /\ UNCHANGED <<currentConfig, storedConfig, handlers, pushes, updates, tabUrl>>
        /\ UNCHANGED <<polVars, ledgerVars, bypVars, cacheVars>>

\* updateProxyForActiveTab(url) up to its await
UpdateProxyForActiveTab(url) ==
    LET isWhitelisted_ == isHostnameOnGlobalAllowlist(UrlHostname(url), currentConfig)
    IN  IF ~currentConfig.proxy.enabled \/ ~UrlParses(url)
        THEN UNCHANGED <<proxyDisabledForWhitelist, tasks>>
        ELSE IF isWhitelisted_ /\ ~proxyDisabledForWhitelist
        THEN /\ proxyDisabledForWhitelist' = TRUE
             /\ tasks' = tasks \cup {SystemTask(0, NullStr)}
        ELSE IF ~isWhitelisted_ /\ proxyDisabledForWhitelist
        THEN /\ proxyDisabledForWhitelist' = FALSE
             /\ tasks' = tasks \cup {ApplyTask}
        ELSE UNCHANGED <<proxyDisabledForWhitelist, tasks>>

\* the navigation of tab t commits: tabs.onUpdated with changeInfo.url
Committed(t) ==
    /\ navs[t].stage = "commit"
    /\ tabUrl' = [tabUrl EXCEPT ![t] = navs[t].url]
    /\ navs' = [navs EXCEPT ![t] = NoNav]
    /\ IF t = activeTab
       THEN UpdateProxyForActiveTab(navs[t].url)
       ELSE UNCHANGED <<proxyDisabledForWhitelist, tasks>>
    /\ lastEv' = Ev("committed", 0)
    /\ UNCHANGED <<appliedProxy, pendingProxyDisableTabId, activeTab, navCount>>
    /\ UNCHANGED <<currentConfig, storedConfig, handlers, pushes, updates>>
    /\ UNCHANGED <<polVars, ledgerVars, bypVars, cacheVars>>

\* tabs.onActivated: the callback of chrome.tabs.get runs updateProxyForActiveTab
ActivateTab(t) ==
    /\ t # activeTab
    /\ activeTab' = t
    /\ UpdateProxyForActiveTab(tabUrl[t])
    /\ lastEv' = Ev("activated", 0)
    /\ UNCHANGED <<appliedProxy, pendingProxyDisableTabId, navs, navCount>>
    /\ UNCHANGED <<currentConfig, storedConfig, handlers, pushes, updates, tabUrl>>
    /\ UNCHANGED <<polVars, ledgerVars, bypVars, cacheVars>>

\* loadConfig() of an applyProxySettings() call of a listener resolved
TaskLoaded(k) ==
    LET d == applyProxySettings(loadConfig(storedConfig))
    IN  /\ k \in tasks /\ k.stage = "load"
        /\ tasks' = (tasks \ {k}) \cup
                    (IF d.set THEN {[k EXCEPT !.stage = "set", !.value = d.value]} ELSE {})
        /\ lastEv' = [Ev("taskLoaded", 0) EXCEPT !.ok = d.set]
        /\ UNCHANGED <<appliedProxy, proxyDisabledForWhitelist, pendingProxyDisableTabId,
                       navs, activeTab, navCount>>
        /\ UNCHANGED <<currentConfig, storedConfig, handlers, pushes, updates, tabUrl>>
        /\ UNCHANGED <<polVars, ledgerVars, bypVars, cacheVars>>

\* chrome.proxy.settings.set of a listener took effect and its callback ran: the
\* replay re-navigates its tab
TaskSetDone(k) ==
    /\ k \in tasks /\ k.stage = "set"
    /\ tasks' = tasks \ {k}
    /\ appliedProxy' = k.value
    /\ navs' = IF k.tab # 0
               THEN [navs EXCEPT ![k.tab] = [stage |-> "navigate", url |-> k.url,
                                             reapplied |-> FALSE]]
               ELSE navs
    /\ lastEv' = Ev("taskSet", 0)
    /\ UNCHANGED <<proxyDisabledForWhitelist, pendingProxyDisableTabId, activeTab, navCount>>
    /\ UNCHANGED <<currentConfig, storedConfig, handlers, pushes, updates, tabUrl>>
    /\ UNCHANGED <<polVars, ledgerVars, bypVars, cacheVars>>

NextProxy ==
    \/ \E t \in Tabs, url \in NavUrls : UserNavigate(t, url)
    \/ \E t \in Tabs : ReplayNavigate(t)
    \/ \E t \in Tabs : BeforeRequest(t)
    \/ \E t \in Tabs : Committed(t)
    \/ \E t \in Tabs : ActivateTab(t)
    \/ \E k \in tasks : TaskLoaded(k)
    \/ \E k \in tasks : TaskSetDone(k)
    \/ \E cfg \in ProxyConfigs : UpdateConfig(cfg)
    \/ \E h \in handlers : SaveDone(h)
    \/ \E h \in handlers : ApplyLoaded(h)
    \/ \E h \in handlers : ApplySetDone(h)
    \/ \E h \in handlers : TabsQueried(h)
    \/ \E p \in pushes : PushDelivered(p)

SpecProxy == InitProxy /\ [][NextProxy]_vars

\* the tabs that navigate where one tab's request and its replay are examined
ReplayTabs == {1}

NextReplay ==
    \/ \E t \in ReplayTabs, url \in NavUrls : UserNavigate(t, url)
    \/ \E t \in ReplayTabs : ReplayNavigate(t)
    \/ \E t \in ReplayTabs : BeforeRequest(t)
    \/ \E t \in ReplayTabs : Committed(t)
    \/ \E k \in tasks : TaskLoaded(k)
    \/ \E k \in tasks : TaskSetDone(k)
    \/ \E cfg \in ProxyConfigs : UpdateConfig(cfg)
    \/ \E h \in handlers : SaveDone(h)
    \/ \E h \in handlers : ApplyLoaded(h)
    \/ \E h \in handlers : ApplySetDone(h)
    \/ \E h \in handlers : TabsQueried(h)
    \/ \E p \in pushes : PushDelivered(p)

SpecReplay == InitProxy /\ [][NextReplay]_vars

(***************************************************************************)
(* Proxy profiles: removal by the library and by the options page          *)
(***************************************************************************)
ProfileNames == <<"NYC", "LA">>

ProfileIds == 1..Len(ProfileNames)

Route(pattern, profile) == [pattern |-> pattern, profile |-> profile]

\* stored configs in which every route and the active profile name a profile
ProfileConfigs ==
    {Config(TRUE, EmptyStr, DEFAULT_CONFIG.features,
            ProxySection(TRUE, "NYC", {"NYC", "LA"},
                         <<Route(H_example_com, "NYC"), Route(H_other_com, "LA")>>)),
     Config(TRUE, EmptyStr, DEFAULT_CONFIG.features,
            ProxySection(TRUE, "LA", {"NYC", "LA"},
                         <<Route(P_star_dot_example_com, "NYC")>>)),
     Config(TRUE, EmptyStr, DEFAULT_CONFIG.features,
            ProxySection(FALSE, "", {"NYC"}, <<>>))}

\* the extension has initialized and the options page has loaded the config
InitProfiles ==
    /\ IdleLedger
    /\ IdleBypass
    /\ IdleCache
    /\ dfConfig = [enabled |-> TRUE, globalWhitelist |-> EmptyStr,
                   features |-> [f \in FeatureIds |-> Section(TRUE, EmptyStr)]]
    /\ dfCall = NoCall
    /\ allowlist = EmptyStr
    /\ libCall = NoLibCall
    /\ storedConfig \in {Stored(cfg) : cfg \in ProfileConfigs}
    /\ currentConfig = loadConfig(storedConfig)
    /\ optionsConfig = currentConfig
    /\ handlers = {}
    /\ pushes = {}
    /\ updates = 0
    /\ tabUrl = [t \in Tabs |-> U_about_blank]
    /\ lastEv = NoEv
    /\ appliedProxy = applyProxySettings(currentConfig).value
    /\ proxyDisabledForWhitelist = FALSE
    /\ pendingProxyDisableTabId = 0
    /\ tasks = {}
    /\ navs = [t \in Tabs |-> NoNav]
    /\ activeTab = 1
    /\ navCount = 0

\* proxy.js removeProxyProfile(profileName) is called and awaits its loadConfig()
LibRemoveCalled(i) ==
    LET k == [kind |-> "removeProfile", stage |-> "load", name |-> ProfileNames[i], id |-> i]
    IN  /\ k \notin tasks
        /\ tasks' = tasks \cup {k}
        /\ lastEv' = Ev("libRemoveCalled", i)
        /\ UNCHANGED <<currentConfig, storedConfig, handlers, pushes, updates, tabUrl>>
        /\ UNCHANGED <<appliedProxy, proxyDisabledForWhitelist, pendingProxyDisableTabId,
                       navs, activeTab, navCount>>
        /\ UNCHANGED <<polVars, ledgerVars, bypVars, cacheVars>>

\* loadConfig() resolved: the profile, the active reference and the routes are
\* edited and saveConfig(config) writes the result
LibRemoveSaved(k) ==
    /\ k \in tasks
    /\ storedConfig' = Stored(removeProxyProfile(loadConfig(storedConfig), k.name))
    /\ tasks' = tasks \ {k}
    /\ lastEv' = Ev("libRemoved", k.id)
    /\ UNCHANGED <<currentConfig, handlers, pushes, updates, tabUrl>>
    /\ UNCHANGED <<appliedProxy, proxyDisabledForWhitelist, pendingProxyDisableTabId,
                   navs, activeTab, navCount>>
    /\ UNCHANGED <<polVars, ledgerVars, bypVars, cacheVars>>

\* options page: the Remove button of a listed profile, and the answer to confirm()
OptionsRemove(i, confirmed) ==
    /\ ProfileNames[i] \in optionsConfig.proxy.profiles
    /\ optionsConfig' = IF confirmed
                        THEN optionsRemoveProxyProfile(optionsConfig, ProfileNames[i])
                        ELSE optionsConfig
    /\ lastEv' = [Ev("optionsRemoved", i) EXCEPT !.ok = confirmed]
    /\ UNCHANGED <<dfConfig, dfCall, allowlist, libCall, ledgerVars>>
    /\ UNCHANGED <<currentConfig, storedConfig, handlers, pushes, updates, tabUrl>>
    /\ UNCHANGED <<bypVars, cacheVars, proxyVars>>

NextProfiles ==
    \/ \E i \in ProfileIds : LibRemoveCalled(i)
    \/ \E k \in tasks : LibRemoveSaved(k)
    \/ \E i \in ProfileIds, confirmed \in BOOLEAN : OptionsRemove(i, confirmed)
    \* options page: the auto-save timer or the Save button: collectValues() and
    \* the update-config message, which the orchestrator starts to handle
    \/ UpdateConfig(collectValues(optionsConfig))
    \/ \E h \in handlers : SaveDone(h)
    \/ \E h \in handlers : ApplyLoaded(h)
    \/ \E h \in handlers : ApplySetDone(h)
    \/ \E h \in handlers : TabsQueried(h)

SpecProfiles == InitProfiles /\ [][NextProfiles]_vars

(***************************************************************************)
(* Egress mode: enableProxy, disableProxy and applyProxySettings           *)
(***************************************************************************)
\* names passed to enableProxy(profileName); no stored profile is called Ghost
EnableNames == {"NYC", "LA", "Ghost"}

ModeAllowlists == {EmptyStr, P_blank, H_example_com}

ModeProxySections ==
    {ProxySection(FALSE, "", {"NYC", "LA"}, <<>>),
     ProxySection(TRUE, "", {"NYC", "LA"}, <<>>),
     ProxySection(TRUE, "NYC", {"NYC", "LA"}, <<>>),
     ProxySection(TRUE, "", {"NYC", "LA"}, <<Route(H_other_com, "LA")>>),
     ProxySection(TRUE, "NYC", {"NYC", "LA"}, <<Route(H_other_com, "LA")>>)}

ModeConfigs ==
    {Config(en, gw, DEFAULT_CONFIG.features, px) :
        en \in BOOLEAN, gw \in ModeAllowlists, px \in ModeProxySections}

\* the extension has initialized from a stored config and applied its settings
InitMode ==
    /\ IdleLedger
    /\ IdleBypass
    /\ IdleCache
    /\ IdlePolicy
    /\ storedConfig \in {Stored(cfg) : cfg \in ModeConfigs}
    /\ currentConfig = loadConfig(storedConfig)
    /\ handlers = {}
    /\ pushes = {}
    /\ updates = 0
    /\ tabUrl = [t \in Tabs |-> U_about_blank]
    /\ lastEv = NoEv
    /\ appliedProxy = applyProxySettings(currentConfig).value
    /\ proxyDisabledForWhitelist = FALSE
    /\ pendingProxyDisableTabId = 0
    /\ tasks = {}
    /\ navs = [t \in Tabs |-> NoNav]
    /\ activeTab = 1
    /\ navCount = 0

\* enableProxy(profileName) is called and awaits its loadConfig()
EnableProxyCalled(name) ==
    LET k == [kind |-> "enableProxy", stage |-> "config", name |-> name]
    IN  /\ Cardinality(tasks) <= MaxInFlight
        /\ k \notin tasks
        /\ tasks' = tasks \cup {k}
        /\ lastEv' = Ev("enableCalled", 0)
        /\ UNCHANGED <<currentConfig, storedConfig, handlers, pushes, updates, tabUrl>>
        /\ UNCHANGED <<appliedProxy, proxyDisabledForWhitelist, pendingProxyDisableTabId,
                       navs, activeTab, navCount>>
        /\ UNCHANGED <<polVars, ledgerVars, bypVars, cacheVars>>

\* disableProxy() is called and awaits its loadConfig()
DisableProxyCalled ==
    LET k == [kind |-> "disableProxy", stage |-> "config", name |-> ""]
    IN  /\ Cardinality(tasks) <= MaxInFlight
        /\ k \notin tasks
        /\ tasks' = tasks \cup {k}
        /\ lastEv' = Ev("disableCalled", 0)
        /\ UNCHANGED <<currentConfig, storedConfig, handlers, pushes, updates, tabUrl>>
        /\ UNCHANGED <<appliedProxy, proxyDisabledForWhitelist, pendingProxyDisableTabId,
                       navs, activeTab, navCount>>
        /\ UNCHANGED <<polVars, ledgerVars, bypVars, cacheVars>>

\* loadConfig() of enableProxy or disableProxy resolved: the proxy section is
\* edited, saveConfig(config) writes it and applyProxySettings() is called
ProxySwitchSaved(k) ==
    LET config == loadConfig(storedConfig)
    IN  /\ k \in tasks /\ k.stage = "config"
        /\ storedConfig' =
              Stored(IF k.kind = "enableProxy"
                     THEN [config EXCEPT !.proxy.enabled = TRUE,
                                         !.proxy.activeProfile = k.name]
                     ELSE [config EXCEPT !.proxy.enabled = FALSE])
        /\ tasks' = (tasks \ {k}) \cup {ApplyTask}
        /\ lastEv' = Ev("switchSaved", 0)
        /\ UNCHANGED <<currentConfig, handlers, pushes, updates, tabUrl>>
        /\ UNCHANGED <<appliedProxy, proxyDisabledForWhitelist, pendingProxyDisableTabId,
                       navs, activeTab, navCount>>
        /\ UNCHANGED <<polVars, ledgerVars, bypVars, cacheVars>>

NextMode ==
    \/ \E name \in EnableNames : EnableProxyCalled(name)
    \/ DisableProxyCalled
    \/ \E k \in tasks : ProxySwitchSaved(k)
    \/ \E k \in tasks : TaskLoaded(k)
    \/ \E k \in tasks : TaskSetDone(k)

SpecMode == InitMode /\ [][NextMode]_vars

(***************************************************************************)
(* Proxy profiles: addProxyProfile.  The profiles of a config are here the  *)
(* list of their names as texts, so that a list can hold a name twice.     *)
(***************************************************************************)
MaxProfiles == 4

N_nyc == <<"N","Y","C">>

N_proxy_host == <<"P","r","o","x","y"," ","h">>

N_paris_fr == <<"P","a","r","i","s",","," ","F","R">>

\* `${name} (${counter})`
Numbered(name, counter) == name \o <<" ", "(">> \o String(counter) \o <<")">>

NamesOf(profiles) == {profiles[i] : i \in 1..Len(profiles)}

\* the while loop of addProxyProfile at finalName and counter
RECURSIVE FreeName(_, _, _, _)
FreeName(profiles, name, finalName, counter) ==
    IF finalName \in NamesOf(profiles)
    THEN FreeName(profiles, name, Numbered(name, counter), counter + 1)
    ELSE finalName

\* addProxyProfile(profile) from the loaded profiles to the saved ones
addProxyProfile(profiles, name) == Append(profiles, FreeName(profiles, name, name, 1))

\* profile.name of the calls; a blank one is replaced by a generated name
RequestedNames == {N_nyc, Numbered(N_nyc, 1), EmptyStr, P_blank}

\* generateProfileName(location, host): "City, CC" or "Proxy host"
GeneratedNames == {N_paris_fr, N_proxy_host}

StoredProfileLists == {<<>>, <<N_nyc>>, <<N_nyc, Numbered(N_nyc, 1)>>}

AddCallIds == 1..(MaxInFlight + 1)

\* the stored config holds profiles with distinct names and no call is running
InitAddProfile ==
    /\ IdlePolicy
    /\ IdleBypass
    /\ IdleCache
    /\ IdleLedger
    /\ storedConfig \in
          {Stored(Config(TRUE, EmptyStr, DEFAULT_CONFIG.features,
                         ProxySection(FALSE, "", profiles, <<>>))) :
              profiles \in StoredProfileLists}
    /\ currentConfig = loadConfig(storedConfig)
    /\ handlers = {}
    /\ pushes = {}
    /\ updates = 0
    /\ tabUrl = [t \in Tabs |-> U_about_blank]
    /\ lastEv = NoEv
    /\ IdleProxy

\* addProxyProfile(profile) is called: it awaits fetchProxyLocation(profile.host)
\* when the name is blank and loadConfig() otherwise
AddProfileCalled(id, name) ==
    LET blank == Trim(name) = EmptyStr
        k == [kind |-> "addProfile", stage |-> IF blank THEN "fetch" ELSE "load",
              id |-> id, name |-> name, profiles |-> <<>>]
    IN  /\ \A j \in tasks : j.id # id
        /\ Len(loadConfig(storedConfig).proxy.profiles) + Cardinality(tasks) < MaxProfiles
        /\ tasks' = tasks \cup {k}
        /\ lastEv' = Ev("addProfileCalled", id)
        /\ UNCHANGED <<currentConfig, storedConfig, handlers, pushes, updates, tabUrl>>
        /\ UNCHANGED <<appliedProxy, proxyDisabledForWhitelist, pendingProxyDisableTabId,
                       navs, activeTab, navCount>>
        /\ UNCHANGED <<polVars, ledgerVars, bypVars, cacheVars>>

\* fetchProxyLocation resolved: profile.name = generateProfileName(location, host),
\* and loadConfig() is awaited
LocationFetched(k, generated) ==
    /\ k \in tasks /\ k.stage = "fetch"
    /\ tasks' = (tasks \ {k}) \cup {[k EXCEPT !.stage = "load", !.name = generated]}
    /\ lastEv' = Ev("locationFetched", k.id)
    /\ UNCHANGED <<currentConfig, storedConfig, handlers, pushes, updates, tabUrl>>
    /\ UNCHANGED <<appliedProxy, proxyDisabledForWhitelist, pendingProxyDisableTabId,
                   navs, activeTab, navCount>>
    /\ UNCHANGED <<polVars, ledgerVars, bypVars, cacheVars>>

\* storage.read of loadConfig() took its copy of the stored config
ProfilesLoaded(k) ==
    /\ k \in tasks /\ k.stage = "load"
    /\ tasks' = (tasks \ {k}) \cup
                {[k EXCEPT !.stage = "save",
                           !.profiles = loadConfig(storedConfig).proxy.profiles]}
    /\ lastEv' = Ev("profilesLoaded", k.id)
    /\ UNCHANGED <<currentConfig, storedConfig, handlers, pushes, updates, tabUrl>>
    /\ UNCHANGED <<appliedProxy, proxyDisabledForWhitelist, pendingProxyDisableTabId,
                   navs, activeTab, navCount>>
    /\ UNCHANGED <<polVars, ledgerVars, bypVars, cacheVars>>

\* loadConfig() resolved: the free name is found, the profile is pushed and
\* saveConfig(config) writes the config the call loaded
ProfileSaved(k) ==
    /\ k \in tasks /\ k.stage = "save"
    /\ storedConfig' =
          Stored([loadConfig(storedConfig) EXCEPT
                     !.proxy.profiles = addProxyProfile(k.profiles, k.name)])
    /\ tasks' = tasks \ {k}
    /\ lastEv' = Ev("profileSaved", k.id)
    /\ UNCHANGED <<currentConfig, handlers, pushes, updates, tabUrl>>
    /\ UNCHANGED <<appliedProxy, proxyDisabledForWhitelist, pendingProxyDisableTabId,
                   navs, activeTab, navCount>>
    /\ UNCHANGED <<polVars, ledgerVars, bypVars, cacheVars>>

NextAddProfile ==
    \/ \E id \in AddCallIds, name \in RequestedNames : AddProfileCalled(id, name)
    \/ \E k \in tasks, generated \in GeneratedNames : LocationFetched(k, generated)
    \/ \E k \in tasks : ProfilesLoaded(k)
    \/ \E k \in tasks : ProfileSaved(k)

SpecAddProfile == InitAddProfile /\ [][NextAddProfile]_vars

(***************************************************************************)
(* Triggered-features ledger                                               *)
(***************************************************************************)
MaxLedgerEvents == 3

\* the entry never forgets the features of another hostname
markTriggeredFeatureForTab_keepsOldFeatures(ledger, tabId, hostname, feature) ==
    IF tabId = 0 THEN ledger
    ELSE [ledger EXCEPT ![tabId] =
            [present |-> TRUE, hostname |-> hostname,
             features |-> ledger[tabId].features \cup {feature}]]

\* background.js, markTriggeredFeatureForTab(tabId, hostname, feature)
markTriggeredFeatureForTab(ledger, tabId, hostname, feature) ==
    IF tabId = 0 THEN ledger
    ELSE LET old   == ledger[tabId]
             entry == IF ~old.present \/ old.hostname # hostname
                      THEN [present |-> TRUE, hostname |-> hostname, features |-> {}]
                      ELSE old
         IN [ledger EXCEPT ![tabId] = [entry EXCEPT !.features = @ \cup {feature}]]

\* window.location.hostname of the frames that report a signal
SignalHostnames == {H_example_com, H_other_com}

\* changeInfo.url of tabs.onUpdated
UpdatedUrls == {U_example_com, U_other_com, U_garbage}

LogEntry(op, tabId, hostname, feature, url) ==
    [op |-> op, tabId |-> tabId, hostname |-> hostname, feature |-> feature, url |-> url]

\* the extension has initialized with the default config, in which the proxy is
\* disabled; no tab has reported a signal
InitLedger ==
    /\ IdlePolicy
    /\ IdleBypass
    /\ IdleOrch
    /\ IdleCache
    /\ IdleProxy
    /\ IdleLedger

\* handleFingerprintDetectedMessage(request, sender) with sender.tab.id = tabId,
\* 0 for a sender without a tab; the notification it then raises is no part of
\* the ledger
FingerprintDetected(tabId, hostname, feature) ==
    /\ Len(signalLog) < MaxLedgerEvents
    /\ triggeredFeaturesPerTab' =
          markTriggeredFeatureForTab(triggeredFeaturesPerTab, tabId, hostname, feature)
    /\ signalLog' = IF tabId = 0 THEN signalLog
                    ELSE Append(signalLog, LogEntry("signal", tabId, hostname, feature, NullStr))
    /\ lastEv' = Ev("fingerprintDetected", tabId)
    /\ UNCHANGED <<currentConfig, storedConfig, handlers, pushes, updates, tabUrl>>
    /\ UNCHANGED <<polVars, bypVars, cacheVars, proxyVars, featuresReply>>

\* tabs.onUpdated with changeInfo.url: the entry of another hostname is deleted,
\* and so is every entry when URL() throws; updateProxyForActiveTab returns at
\* once as the proxy is not enabled
TabUpdated(tabId, url) ==
    LET tabData == triggeredFeaturesPerTab[tabId]
        stale   == IF UrlParses(url)
                   THEN tabData.present /\ tabData.hostname # UrlHostname(url)
                   ELSE TRUE
    IN  /\ Len(signalLog) < MaxLedgerEvents
        /\ ~currentConfig.proxy.enabled
        /\ triggeredFeaturesPerTab' =
              IF stale THEN [triggeredFeaturesPerTab EXCEPT ![tabId] = NoEntry]
              ELSE triggeredFeaturesPerTab
        /\ signalLog' = Append(signalLog, LogEntry("navigate", tabId, NullStr, "", url))
        /\ tabUrl' = [tabUrl EXCEPT ![tabId] = url]
        /\ lastEv' = Ev("tabUpdated", tabId)
        /\ UNCHANGED <<currentConfig, storedConfig, handlers, pushes, updates>>
        /\ UNCHANGED <<polVars, bypVars, cacheVars, proxyVars, featuresReply>>

\* tabs.onRemoved
TabRemoved(tabId) ==
    /\ Len(signalLog) < MaxLedgerEvents
    /\ triggeredFeaturesPerTab' = [triggeredFeaturesPerTab EXCEPT ![tabId] = NoEntry]
    /\ signalLog' = Append(signalLog, LogEntry("close", tabId, NullStr, "", NullStr))
    /\ lastEv' = Ev("tabRemoved", tabId)
    /\ UNCHANGED <<currentConfig, storedConfig, handlers, pushes, updates, tabUrl>>
    /\ UNCHANGED <<polVars, bypVars, cacheVars, proxyVars, featuresReply>>

\* handleGetTriggeredFeaturesMessage(request) with request.tabId = tabId
GetTriggeredFeatures(tabId) ==
    LET tabData == triggeredFeaturesPerTab[tabId]
    IN  /\ featuresReply' = [tabId |-> tabId,
                             features |-> IF tabData.present THEN tabData.features ELSE {}]
        /\ lastEv' = Ev("getTriggeredFeatures", tabId)
        /\ UNCHANGED <<currentConfig, storedConfig, handlers, pushes, updates, tabUrl>>
        /\ UNCHANGED <<polVars, bypVars, cacheVars, proxyVars>>
        /\ UNCHANGED <<triggeredFeaturesPerTab, signalLog>>

NextLedger ==
    \/ \E t \in Tabs \cup {0}, h \in SignalHostnames, f \in FeatureIds :
          FingerprintDetected(t, h, f)
    \/ \E t \in Tabs, url \in UpdatedUrls : TabUpdated(t, url)
    \/ \E t \in Tabs : TabRemoved(t)
    \/ \E t \in Tabs : GetTriggeredFeatures(t)

SpecLedger == InitLedger /\ [][NextLedger]_vars


(***************************************************************************)
(* Challenge-bypass coordinator: the get-injection-config answer           *)
(***************************************************************************)
\* buildInjectionConfigForRequest(request, sender): the features of the answer,
\* or { enabled: false, globalWhitelist } while the tab's hostname has a bypass
buildInjectionConfigForRequest(config, m, sender, url, t) ==
    LET topHostname == resolveTabHostname(sender, getHostnameFromUrl(url))
        exactBypass == getExactTurnstileBypass(m, topHostname, t)
    IN  IF exactBypass.active
        THEN [disabled |-> TRUE, features |-> {}, map |-> exactBypass.map]
        ELSE [disabled |-> FALSE,
              features |-> {f \in FeatureIds : shouldActivateFeature(config, url, f)},
              map      |-> exactBypass.map]

\* the URLs of the frames that ask for their injection config
InjectionUrls == {U_example_com, U_sub_example_com, U_other_com}

InitInjection ==
    /\ IdleLedger
    /\ IdleBypass
    /\ IdlePolicy
    /\ IdleCache
    /\ IdleProxy
    /\ storedConfig \in {Stored(cfg) : cfg \in CacheConfigs}
    /\ currentConfig = loadConfig(storedConfig)
    /\ handlers = {}
    /\ pushes = {}
    /\ updates = 0
    /\ tabUrl = [t \in Tabs |-> U_about_blank]
    /\ lastEv = NoEv

\* handleGetInjectionConfigMessage(request, sender)
GetInjectionConfig(sender, url) ==
    LET r == buildInjectionConfigForRequest(currentConfig, turnstileTimestamps, sender, url, now)
    IN  /\ turnstileTimestamps' = r.map
        /\ lastOp' = [NoOp EXCEPT !.op = "injectionConfig",
                                  !.host = resolveTabHostname(sender, getHostnameFromUrl(url)),
                                  !.tab = IF sender.hasTab THEN sender.tabId ELSE 0,
                                  !.url = url,
                                  !.disabled = r.disabled, !.features = r.features]
        /\ UNCHANGED <<now, ticks, accepted, effects, sessionFlag, restVars>>

NextInjection ==
    \/ \E s \in BypassSenders : Detect(s, H_other_com)
    \/ \E e \in effects : UAReapplied(e)
    \/ \E e \in effects, ran \in BOOLEAN : FlagScriptDone(e, ran)
    \/ \E e \in effects : ReloadTimerFired(e)
    \/ \E s \in BypassSenders, url \in InjectionUrls : GetInjectionConfig(s, url)
    \/ \E d \in TickSteps : Tick(d)

SpecInjection == InitInjection /\ [][NextInjection]_vars

(***************************************************************************)
(* Network-level protections: User-Agent header and WebRTC policy          *)
(***************************************************************************)
\* config.webrtc: { enabled, whitelist, policy }
WebRTCSection(en, wl, policy) == [enabled |-> en, whitelist |-> wl, policy |-> policy]

\* isHostnameOnFeatureAllowlist(hostname, whitelist, config)
isHostnameOnFeatureAllowlist(hostname, whitelist) ==
    IF ~Truthy(hostname) \/ ~Truthy(whitelist) THEN FALSE
    ELSE isWhitelisted(hostname, whitelist)

\* setWebRTCPolicy(url): the value it hands to applyWebRTCPolicyValue
setWebRTCPolicy(webrtc, url) ==
    IF ~webrtc.enabled THEN "default"
    ELSE IF isHostnameOnFeatureAllowlist(getHostnameFromUrl(url), webrtc.whitelist)
    THEN "default"
    ELSE webrtc.policy

\* the webrtc section is drawn with the call: the configs of the model carry the
\* sections of FeatureIds only
WebRTCSections ==
    {WebRTCSection(en, wl, "disable_non_proxied_udp") :
        en \in BOOLEAN, wl \in {EmptyStr, H_other_com}}

\* the http(s) URLs of the requests and of the main-frame navigations
NetworkUrls == {U_example_com, U_sub_example_com, U_other_com}

InitNetwork ==
    /\ IdleLedger
    /\ IdleBypass
    /\ IdlePolicy
    /\ IdleCache
    /\ IdleProxy
    /\ storedConfig \in {Stored(cfg) : cfg \in CacheConfigs}
    /\ currentConfig = loadConfig(storedConfig)
    /\ handlers = {}
    /\ pushes = {}
    /\ updates = 0
    /\ tabUrl = [t \in Tabs |-> U_about_blank]
    /\ lastEv = NoEv

\* webNavigation.onBeforeNavigate / onCommitted of a main frame:
\* setWebRTCPolicy(details.url)
SetWebRTCPolicy(webrtc, url) ==
    /\ lastOp' = [NoOp EXCEPT !.op = "webrtc", !.host = UrlHostname(url), !.url = url,
                              !.policy = setWebRTCPolicy(webrtc, url)]
    /\ UNCHANGED <<now, ticks, turnstileTimestamps, accepted, effects, sessionFlag, restVars>>

NextNetwork ==
    \/ \E url \in NetworkUrls : UaListenerCalled(url)
    \/ \E webrtc \in WebRTCSections, url \in NetworkUrls : SetWebRTCPolicy(webrtc, url)
    \/ \E s \in BypassSenders : Detect(s, H_other_com)
    \/ \E e \in effects : UAReapplied(e)
    \/ \E e \in effects, ran \in BOOLEAN : FlagScriptDone(e, ran)
    \/ \E e \in effects : ReloadTimerFired(e)
    \/ \E d \in TickSteps : Tick(d)

SpecNetwork == InitNetwork /\ [][NextNetwork]_vars

(***************************************************************************)
(* Page contexts: migration of the config they read                        *)
(***************************************************************************)
\* The fields the migration looks at.  enabled is "true", "false" or "undefined"
\* (no such field); globalWhitelist is "undefined", "null" or the list; webgl is
\* the section or nothing, its preset "" when the section has none.
MigrationView(enabled, globalWhitelist, hasWebgl, preset) ==
    [enabled |-> enabled, globalWhitelist |-> globalWhitelist,
     webgl |-> [present |-> hasWebgl, preset |-> IF hasWebgl THEN preset ELSE ""]]

RetiredPresets == {"m1_air", "intel_mbp", "iphone_x"}

\* the hardcoded fallback of the injector, as the migration sees it
MigrationDefaults == MigrationView("true", "", TRUE, "auto")

\* variant: the retired presets are kept
MigratePreset_keepsRetired(webgl) ==
    IF ~webgl.present THEN webgl
    ELSE IF webgl.preset = "" THEN [webgl EXCEPT !.preset = "auto"]
    ELSE webgl

\* if (webgl && !webgl.preset) preset = "auto"; then the retired Apple presets
\* become "apple"
MigratePreset(webgl) ==
    IF ~webgl.present THEN webgl
    ELSE LET preset == IF webgl.preset = "" THEN "auto" ELSE webgl.preset
         IN [webgl EXCEPT !.preset = IF preset \in RetiredPresets THEN "apple" ELSE preset]

\* if (typeof enabled === 'undefined') enabled = true
MigrateEnabled(enabled) == IF enabled = "undefined" THEN "true" ELSE enabled

MissingGlobalWhitelist(globalWhitelist) == globalWhitelist \in {"undefined", "null"}

\* JSON text of a config with its version tag
MigrationBlob(view, version) == [kind |-> "object", version |-> version, cfg |-> view]

\* 'globalWhitelist' in parsedCache, with the version test
MigrationCacheAccepted(works, blob) ==
    /\ works
    /\ blob.kind = "object"
    /\ blob.version = CONFIG_VERSION
    /\ blob.cfg.globalWhitelist # "undefined"

\* the synchronous part of the injector: the config it goes on with and the cache
\* it leaves.  The cache is written back only when globalWhitelist was missing,
\* before the presets are looked at
MigrateCached(works, blob) ==
    LET fromCache == MigrationCacheAccepted(works, blob)
        config    == IF fromCache THEN blob.cfg ELSE MigrationDefaults
        missing   == MissingGlobalWhitelist(config.globalWhitelist)
        filled    == [config EXCEPT !.enabled = MigrateEnabled(config.enabled),
                                    !.globalWhitelist = IF missing THEN "" ELSE @]
    IN  [fromCache |-> fromCache,
         rewritten |-> missing /\ works,
         cache     |-> IF missing /\ works THEN MigrationBlob(filled, CONFIG_VERSION) ELSE blob,
         config    |-> [filled EXCEPT !.webgl = MigratePreset(filled.webgl)]]

\* freshConfig of the refresh callback, after its migration
MigrateFresh(stored, config) ==
    LET sc == stored.cfg
        enabled == IF stored.present /\ sc.enabled # "undefined" THEN sc.enabled
                   ELSE config.enabled
        globalWhitelist == IF stored.present /\ sc.globalWhitelist # "undefined"
                           THEN sc.globalWhitelist
                           ELSE config.globalWhitelist
        webgl == IF stored.present /\ sc.webgl.present THEN sc.webgl ELSE config.webgl
    IN  [enabled |-> MigrateEnabled(enabled),
         globalWhitelist |-> IF MissingGlobalWhitelist(globalWhitelist) THEN ""
                             ELSE globalWhitelist,
         webgl |-> MigratePreset(webgl)]

\* configs of older releases and of this one
MigrationViews ==
    {MigrationView("false", "example.com", TRUE, "m1_air"),
     MigrationView("undefined", "null", TRUE, "iphone_x"),
     MigrationView("true", "", TRUE, ""),
     MigrationView("true", "undefined", TRUE, "intel_mbp"),
     MigrationView("false", "", FALSE, ""),
     MigrationView("true", "example.com", TRUE, "pixel_4")}

\* sessionStorage holds nothing, or a string JSON.parse throws on
MigrationAbsent == [kind |-> "absent", version |-> "", cfg |-> MigrationDefaults]

MigrationGarbage == [kind |-> "garbage", version |-> "", cfg |-> MigrationDefaults]

\* chrome.storage.local holds no config
MigrationNoStored == [present |-> FALSE, cfg |-> MigrationDefaults]

MigrationBlobs ==
    {MigrationAbsent, MigrationGarbage}
    \cup {MigrationBlob(v, CONFIG_VERSION) : v \in MigrationViews}
    \cup {MigrationBlob(MigrationView("true", "", TRUE, "m1_air"), "1.0.1")}

MigrationContexts == {1, 2}

InitMigration ==
    /\ IdleLedger
    /\ IdlePolicy
    /\ IdleBypass
    /\ IdleProxy
    /\ storedConfig \in {MigrationNoStored}
                        \cup {[present |-> TRUE, cfg |-> v] : v \in MigrationViews}
    /\ currentConfig = DEFAULT_CONFIG
    /\ handlers = {}
    /\ pushes = {}
    /\ updates = 0
    /\ tabUrl = [t \in Tabs |-> IF t = 1 THEN U_example_com ELSE U_other_com]
    /\ lastEv = NoEv
    /\ sessionCache \in {[t \in Tabs |-> IF t = 1 THEN b ELSE MigrationAbsent] :
                            b \in MigrationBlobs}
    /\ refreshTs = [t \in Tabs |-> NullStr]
    /\ storageWorks = [t \in Tabs |-> t = 1]
    /\ contexts = [c \in Contexts |-> NoContext]
    /\ reads = {}

\* the injector runs in a new document of context c: cache read, fallback,
\* migration, throttled refresh
MigratingInit(c) ==
    LET t       == CtxTab(c)
        works   == storageWorks[t]
        m       == MigrateCached(works, sessionCache[t])
        refresh == shouldRefreshCache(works, refreshTs[t], now)
    IN  /\ sessionCache' = [sessionCache EXCEPT ![t] = m.cache]
        /\ refreshTs' = IF refresh /\ works
                        THEN [refreshTs EXCEPT ![t] = String(now)]
                        ELSE refreshTs
        /\ reads' = {r \in reads : r.ctx # c} \cup
                    (IF refresh
                     THEN {[ctx |-> c, config |-> m.config, stage |-> "issued",
                            result |-> MigrationNoStored]}
                     ELSE {})
        /\ contexts' = [contexts EXCEPT ![c] =
                          [alive |-> TRUE, listening |-> FALSE, config |-> m.config]]
        /\ lastEv' = [Ev("init", c) EXCEPT !.ok = m.fromCache, !.refresh = refresh]
        /\ UNCHANGED storageWorks
        /\ UNCHANGED <<currentConfig, storedConfig, handlers, pushes, updates, tabUrl>>
        /\ UNCHANGED <<polVars, ledgerVars, bypVars, proxyVars>>

\* the callback of the get: the migrated freshConfig is written to the cache
MigratingReadDone(r) ==
    LET t == CtxTab(r.ctx)
    IN  /\ r \in reads /\ r.stage = "served"
        /\ reads' = reads \ {r}
        /\ sessionCache' = IF storageWorks[t]
                           THEN [sessionCache EXCEPT ![t] =
                                   MigrationBlob(MigrateFresh(r.result, r.config),
                                                 CONFIG_VERSION)]
                           ELSE sessionCache
        /\ lastEv' = Ev("refreshed", r.ctx)
        /\ UNCHANGED <<refreshTs, storageWorks, contexts>>
        /\ UNCHANGED <<currentConfig, storedConfig, handlers, pushes, updates, tabUrl>>
        /\ UNCHANGED <<polVars, ledgerVars, bypVars, proxyVars>>

NextMigration ==
    \/ \E c \in MigrationContexts : MigratingInit(c)
    \/ \E r \in reads : ReadServed(r)
    \/ \E r \in reads : MigratingReadDone(r)
    \/ \E d \in CacheTickSteps : CacheTick(d)

SpecMigration == InitMigration /\ [][NextMigration]_vars
(***************************************************************************)
(* Orchestrator: config requests in flight together                        *)
(***************************************************************************)
MaxWhitelistRequests == 1

\* the domains of the add-to-whitelist and remove-from-whitelist requests
RequestDomains == {H_other_com}

\* the config objects of the update-config requests: the feature sections alone
\* differ from the default, or the global allowlist does
RequestConfigs == {NoFeatures(DEFAULT_CONFIG), Allowing(DEFAULT_CONFIG, H_example_com)}

InitRequests ==
    /\ IdleLedger
    /\ IdlePolicy
    /\ IdleBypass
    /\ IdleCache
    /\ IdleProxy
    /\ storedConfig \in {NoStored, Stored(Allowing(DEFAULT_CONFIG, P_star_dot_other_com))}
    /\ currentConfig = loadConfig(storedConfig)
    /\ handlers = {}
    /\ pushes = {}
    /\ updates = 0
    /\ tabUrl = [t \in Tabs |-> IF t = 1 THEN U_example_com ELSE U_about_blank]
    /\ lastEv = NoEv

\* updateGlobalWhitelist(request, mutator) up to its await of saveConfig:
\* getConfig() returns the object currentConfig refers to, the mutator's result is
\* assigned to its globalWhitelist, and saveConfig is called with the object.
\* Every handler that holds the same object sees the new list.
UpdateGlobalWhitelist(add, domain) ==
    LET whitelist == IF add THEN addDomainToWhitelist(domain, currentConfig.globalWhitelist)
                     ELSE removeDomainFromWhitelist(domain, currentConfig.globalWhitelist)
        config    == [currentConfig EXCEPT !.globalWhitelist = whitelist]
        holders   == {k \in handlers : k.cur}
        obj       == IF holders = {} THEN updates + 1 ELSE (CHOOSE k \in holders : TRUE).obj
    IN  /\ updates < MaxUpdates + MaxWhitelistRequests
        /\ Cardinality(handlers) <= MaxInFlight
        /\ updates' = updates + 1
        /\ currentConfig' = config
        /\ handlers' = {IF k.cur THEN [k EXCEPT !.next = config] ELSE k : k \in handlers}
                       \cup {[id |-> updates + 1, next |-> config, proxyChanged |-> TRUE,
                              pc |-> "save", decision |-> SystemMode,
                              obj |-> obj, cur |-> TRUE, written |-> config]}
        /\ lastEv' = [Ev(IF add THEN "add" ELSE "remove", updates + 1) EXCEPT !.host = domain]
        /\ UNCHANGED <<storedConfig, pushes, tabUrl>>
        /\ UNCHANGED <<polVars, ledgerVars, bypVars, cacheVars, proxyVars>>

\* chrome.storage.local.set failed: saveConfig rejects, the handler throws and the
\* listener answers { success: false, error }
SaveFailed(h) ==
    /\ h \in handlers /\ h.pc = "save"
    /\ handlers' = handlers \ {h}
    /\ lastEv' = Ev("saveFailed", h.id)
    /\ UNCHANGED <<currentConfig, storedConfig, pushes, updates, tabUrl>>
    /\ UNCHANGED <<polVars, ledgerVars, bypVars, cacheVars, proxyVars>>

NextRequests ==
    \/ \E cfg \in RequestConfigs : UpdateConfig(cfg)
    \/ \E add \in BOOLEAN, domain \in RequestDomains : UpdateGlobalWhitelist(add, domain)
    \/ \E h \in handlers : SaveDone(h)
    \/ \E h \in handlers : SaveFailed(h)
    \/ \E h \in handlers : ApplyLoaded(h)
    \/ \E h \in handlers : ApplySetDone(h)
    \/ \E h \in handlers : TabsQueried(h)

SpecRequests == InitRequests /\ [][NextRequests]_vars
(***************************************************************************)
(* Claims on the policy engine                                             *)
(***************************************************************************)
PolicyCalled == dfCall.op = "shouldActivateFeature"

PolicyHost == extractHostname(dfCall.url)

PolicySection == SectionOf(dfConfig, dfCall.feature)

\* C4: global enabled = false forces shouldActivate false whatever the other
\* fields are, and a hostname on the global allowlist forces it false whatever
\* the feature's own enabled flag and allowlist are.
C4_GlobalPrecedence ==
    PolicyCalled =>
        /\ (~dfConfig.enabled => dfCall.result = FALSE)
        /\ (Truthy(PolicyHost) /\ isWhitelisted(PolicyHost, dfConfig.globalWhitelist)
                => dfCall.result = FALSE)
        /\ (dfConfig.globalWhitelist = P_star_dot_example_com
               /\ dfCall.url \in {U_sub_example_com, U_example_com, U_www_example_com}
                => dfCall.result = FALSE)

C4_Witness ==
    /\ PolicyCalled
    /\ dfConfig.enabled
    /\ PolicySection.present /\ PolicySection.enabled
    /\ dfConfig.globalWhitelist = P_star_dot_example_com
    /\ dfCall.url = U_sub_example_com
    /\ ~isWhitelisted(PolicyHost, PolicySection.whitelist)
    /\ dfCall.result = FALSE

\* the configuration of the scenario: {enabled:true, canvas:{enabled:true, allowlist:"*.example.com"}}
ScenarioConfig ==
    /\ dfConfig.enabled
    /\ dfConfig.globalWhitelist = NullStr
    /\ dfConfig.features["canvas"] = Section(TRUE, P_star_dot_example_com)

\* C5: shouldActivate is true exactly when global enabled, feature enabled, the
\* url has a hostname, and the hostname is on neither the global nor the
\* feature allowlist; the scenario config gives false on sub.example.com and
\* true on other.com for canvas.
C5_ExactlyFiveConditions ==
    PolicyCalled =>
        /\ dfCall.result =
              ( /\ dfConfig.enabled
                /\ PolicySection.present /\ PolicySection.enabled
                /\ Truthy(PolicyHost)
                /\ ~isWhitelisted(PolicyHost, dfConfig.globalWhitelist)
                /\ ~isWhitelisted(PolicyHost, PolicySection.whitelist) )
        /\ (ScenarioConfig /\ dfCall.feature = "canvas" /\ dfCall.url = U_sub_example_com
                => dfCall.result = FALSE)
        /\ (ScenarioConfig /\ dfCall.feature = "canvas" /\ dfCall.url = U_other_com
                => dfCall.result = TRUE)

C5_Witness ==
    /\ PolicyCalled
    /\ ScenarioConfig
    /\ dfCall.feature = "canvas"
    /\ dfCall.url = U_other_com
    /\ dfCall.result = TRUE

(***************************************************************************)
(* Claims on the challenge-bypass coordinator                              *)
(***************************************************************************)
Unexpired(m, h, t) == Lookup(m, h) # 0 /\ t - Lookup(m, h) < TURNSTILE_BYPASS_TTL_MS

\* the label suffixes of h, most specific first
SuffixCount(h) == Len(Split(h, "."))

SuffixAt(h, i) == SuffixDomain(Split(h, "."), i)

IsSuffixOf(g, h) == \E i \in 1..SuffixCount(h) : SuffixAt(h, i) = g

Related(g, h) == IsSuffixOf(g, h) \/ IsSuffixOf(h, g)

KnownHosts == {H_example_com, H_sub_example_com, H_other_com}

QueryView(m, g, t) ==
    LET r == getTurnstileBypassIncludingParents(m, g, t)
    IN <<r.active, r.matchedDomain, r.remainingMs>>

\* C1: a detect for a hostname that has an unexpired entry of its own answers
\* {success:true, ignored:true}, keeps the stored timestamps as they are and
\* starts no side effect (no User-Agent reapply, no session flag, no reload),
\* whichever tab or frame sent it.
C1_RedetectIsNoOp ==
    [][ ( /\ lastOp'.op = "detect"
          /\ Truthy(lastOp'.host)
          /\ Unexpired(turnstileTimestamps, lastOp'.host, now) )
        => ( /\ lastOp'.success /\ lastOp'.ignored /\ lastOp'.error = ""
             /\ turnstileTimestamps' = turnstileTimestamps
             /\ effects' = effects
             /\ sessionFlag' = sessionFlag ) ]_vars

C1_Witness ==
    /\ lastOp.op = "detect" /\ lastOp.ignored
    /\ lastOp.host = H_example_com
    /\ Lookup(turnstileTimestamps, H_example_com) # 0
    /\ now - Lookup(turnstileTimestamps, H_example_com) = TURNSTILE_RELOAD_DELAY_MS
    /\ effects # {}

\* C2 as stated: after detect(h) accepted at t0, query(h) is active with remaining
\* TTL - (t - t0) while t - t0 < TTL, and from t - t0 >= TTL on it is inactive and
\* removes the entry of h; no entry of another hostname changes and no query
\* result of an unrelated hostname changes.
C2_Original ==
    [][ ( /\ lastOp'.op = "query"
          /\ Truthy(lastOp'.host)
          /\ Lookup(accepted, lastOp'.host) # 0 )
        => LET h   == lastOp'.host
               age == now - accepted[h]
           IN  /\ age < TURNSTILE_BYPASS_TTL_MS =>
                     /\ lastOp'.skipUA
                     /\ lastOp'.remainingMs = TURNSTILE_BYPASS_TTL_MS - age
                     /\ lastOp'.remainingSeconds = CeilSeconds(TURNSTILE_BYPASS_TTL_MS - age)
               /\ age >= TURNSTILE_BYPASS_TTL_MS =>
                     /\ ~lastOp'.skipUA
                     /\ h \notin DOMAIN turnstileTimestamps'
               /\ \A g \in KnownHosts \ {h} :
                     Lookup(turnstileTimestamps', g) = Lookup(turnstileTimestamps, g)
               /\ \A g \in KnownHosts :
                     ~Related(g, h) =>
                        QueryView(turnstileTimestamps', g, now) = QueryView(turnstileTimestamps, g, now)
      ]_vars

\* C2 (amended): after detect(h) accepted at t0, query(h) is active on h itself
\* with remaining TTL - (t - t0) while t - t0 < TTL; from t - t0 >= TTL on the
\* entry of h is removed and the answer is inactive unless an ancestor domain of
\* h has an unexpired entry, which is then the one reported.  The query deletes
\* the expired entries of all hostnames and leaves every unexpired entry, and
\* every query result of an unrelated hostname, unchanged.
C2_QueryFollowsTTL ==
    [][ ( /\ lastOp'.op = "query"
          /\ Truthy(lastOp'.host)
          /\ Lookup(accepted, lastOp'.host) # 0 )
        => LET h   == lastOp'.host
               age == now - accepted[h]
               ancestors == {i \in 2..SuffixCount(h) :
                               Unexpired(turnstileTimestamps, SuffixAt(h, i), now)}
           IN  /\ age < TURNSTILE_BYPASS_TTL_MS =>
                     /\ lastOp'.skipUA
                     /\ lastOp'.matchedDomain = h
                     /\ lastOp'.remainingMs = TURNSTILE_BYPASS_TTL_MS - age
                     /\ lastOp'.remainingSeconds = CeilSeconds(TURNSTILE_BYPASS_TTL_MS - age)
               /\ age >= TURNSTILE_BYPASS_TTL_MS =>
                     /\ h \notin DOMAIN turnstileTimestamps'
                     /\ lastOp'.skipUA = (ancestors # {})
                     /\ lastOp'.skipUA => lastOp'.matchedDomain # h
               /\ \A g \in KnownHosts :
                     Lookup(turnstileTimestamps', g) =
                        IF Unexpired(turnstileTimestamps, g, now)
                        THEN Lookup(turnstileTimestamps, g) ELSE 0
               /\ DOMAIN turnstileTimestamps' \subseteq DOMAIN turnstileTimestamps
               /\ \A g \in KnownHosts :
                     ~Related(g, h) =>
                        QueryView(turnstileTimestamps', g, now) = QueryView(turnstileTimestamps, g, now)
      ]_vars

\* the entry of sub.example.com has just expired (age = TTL) and is gone, while
\* the later entry of example.com keeps the query active
C2_Witness ==
    /\ lastOp.op = "query"
    /\ lastOp.host = H_sub_example_com
    /\ Lookup(accepted, H_sub_example_com) # 0
    /\ now - Lookup(accepted, H_sub_example_com) = TURNSTILE_BYPASS_TTL_MS
    /\ H_sub_example_com \notin DOMAIN turnstileTimestamps
    /\ lastOp.skipUA
    /\ lastOp.matchedDomain = H_example_com

\* C3: query reports the first label suffix of the hostname, most specific
\* first, that has an unexpired entry, with that suffix as matchedDomain and that
\* entry's remaining time; an entry of example.com alone makes
\* sub.example.com active with matchedDomain example.com, and an entry of the
\* hostname itself wins over its ancestor's.
C3_FirstSuffixWins ==
    (lastOp.op = "query" /\ Truthy(lastOp.host)) =>
        LET h    == lastOp.host
            live == {i \in 1..SuffixCount(h) : Unexpired(turnstileTimestamps, SuffixAt(h, i), now)}
        IN  /\ lastOp.active = (live # {})
            /\ lastOp.skipUA = lastOp.active
            /\ live # {} =>
                  LET first == CHOOSE i \in live : \A j \in live : i <= j
                  IN  /\ lastOp.matchedDomain = SuffixAt(h, first)
                      /\ lastOp.remainingMs =
                            TURNSTILE_BYPASS_TTL_MS - (now - turnstileTimestamps[SuffixAt(h, first)])
            /\ live = {} => lastOp.matchedDomain = NullStr /\ lastOp.remainingMs = 0
            /\ ( /\ h = H_sub_example_com
                  /\ Unexpired(turnstileTimestamps, H_example_com, now)
                  /\ H_sub_example_com \notin DOMAIN turnstileTimestamps )
                => lastOp.matchedDomain = H_example_com
            /\ ( /\ h = H_sub_example_com
                  /\ Unexpired(turnstileTimestamps, H_sub_example_com, now) )
                => lastOp.matchedDomain = H_sub_example_com

\* both sub.example.com and example.com have live entries of different ages and
\* the query for sub.example.com reports its own
C3_Witness ==
    /\ lastOp.op = "query"
    /\ lastOp.host = H_sub_example_com
    /\ Unexpired(turnstileTimestamps, H_example_com, now)
    /\ Unexpired(turnstileTimestamps, H_sub_example_com, now)
    /\ turnstileTimestamps[H_example_com] # turnstileTimestamps[H_sub_example_com]
    /\ lastOp.matchedDomain = H_sub_example_com

(***************************************************************************)
(* Claims on the session cache of the page contexts                        *)
(***************************************************************************)
\* the step is a run of the injector in context c
IsInit(c) == lastEv'.op = "init" /\ lastEv'.id = c

\* the cached blob, as the context of tab t finds it, can be used: it is there, it
\* parses to an object, its _version is the current one and it has globalWhitelist
UsableCache(t) ==
    /\ storageWorks[t]
    /\ sessionCache[t].kind = "object"
    /\ sessionCache[t].version = "1.0.2"
    /\ sessionCache[t].cfg.globalWhitelist # NullStr

\* the refresh read of context c is in progress
RefreshScheduled(c) == \E r \in reads : r.ctx = c /\ r.stage = "issued"

\* C8: a run of the injector takes its config from the cached blob only if the
\* blob has the current version tag and the globalWhitelist field; with a blob
\* that is missing, unparseable, of another version or without that field, the
\* config the context decides with is the hardcoded fallback and not the blob.
C8_CacheUsedOnlyIfCurrent ==
    [][\A c \in Contexts :
          IsInit(c) =>
             LET t == CtxTab(c)
             IN  /\ lastEv'.ok => UsableCache(t) /\ contexts'[c].config = sessionCache[t].cfg
                 /\ ~UsableCache(t) =>
                       /\ ~lastEv'.ok
                       /\ contexts'[c].config = InjectorDefaults
                       /\ contexts'[c].listening =
                             ReachesListener(InjectorDefaults, tabUrl[t])]_vars

\* a context of tab 1 has run against the cache of an older release, which holds
\* a config with global protection off, and decided with the fallback
C8_Witness ==
    /\ lastEv.op = "init" /\ lastEv.id = 1
    /\ sessionCache[1].kind = "object"
    /\ sessionCache[1].version = "1.0.1"
    /\ ~sessionCache[1].cfg.enabled
    /\ ~lastEv.ok
    /\ contexts[1].config.enabled

\* the fallback config has global enabled and every feature enabled
AllEnabled(config) ==
    /\ config.enabled
    /\ \A f \in FeatureIds : config.features[f].present /\ config.features[f].enabled

\* C9 as stated: whenever the cache is absent, stale or incomplete at a run of the
\* injector, the context decides with the all-enabled fallback and a refresh
\* read is scheduled in that same run.
C9_Original ==
    [][\A c \in Contexts :
          (IsInit(c) /\ ~UsableCache(CtxTab(c))) =>
             /\ AllEnabled(contexts'[c].config)
             /\ lastEv'.refresh
             /\ RefreshScheduled(c)']_vars

\* the cached last-refresh timestamp of tab t is a number less than the TTL old
RecentlyRefreshed(t) ==
    /\ storageWorks[t]
    /\ Truthy(refreshTs[t])
    /\ parseInt(refreshTs[t]) # NaN
    /\ now - parseInt(refreshTs[t]) < 3000

\* C9 (amended): whenever the cache is absent, stale or incomplete at a run of
\* the injector, the context decides with the all-enabled fallback; a refresh
\* read is scheduled in that same run unless the session's last-refresh
\* timestamp is less than 3000 ms old, and then none is scheduled.
C9_FallbackAndThrottledRefresh ==
    [][\A c \in Contexts :
          (IsInit(c) /\ ~UsableCache(CtxTab(c))) =>
             /\ AllEnabled(contexts'[c].config)
             /\ contexts'[c].config.globalWhitelist = EmptyStr
             /\ lastEv'.refresh = ~RecentlyRefreshed(CtxTab(c))
             /\ RefreshScheduled(c)' = ~RecentlyRefreshed(CtxTab(c))]_vars

\* context 2 has run while the cache of its tab was still absent and the refresh
\* of context 1 was in progress: it decided with the fallback and issued no read
C9_Witness ==
    /\ lastEv.op = "init" /\ lastEv.id = 2
    /\ sessionCache[1].kind = "absent"
    /\ ~lastEv.refresh
    /\ RefreshScheduled(1)
    /\ ~RefreshScheduled(2)
    /\ AllEnabled(contexts[2].config)

\* the last-refresh timestamp of tab t as the throttle reads it (0 when missing)
LastRefresh(t) == parseInt(IF Truthy(refreshTs[t]) THEN refreshTs[t] ELSE <<"0">>)

\* C10 as stated: a run of the injector issues a refresh read only if the time
\* since the cached last-refresh timestamp exceeds 3000 ms.
C10_Original ==
    [][\A c \in Contexts :
          (IsInit(c) /\ lastEv'.refresh /\ storageWorks[CtxTab(c)]
                     /\ LastRefresh(CtxTab(c)) # NaN) =>
             now - LastRefresh(CtxTab(c)) > 3000]_vars

\* C10 (amended): where sessionStorage works, a run of the injector issues a
\* refresh read exactly when the cached last-refresh timestamp is missing or not
\* a number or at least 3000 ms old (elapsed >= TTL, not only > TTL), and it
\* records the current time as the new timestamp in the step that issues the
\* read; a run that issues none leaves the timestamp alone.  So two reads of
\* contexts that share a session cache are at least 3000 ms apart.  Where
\* sessionStorage throws, every run issues a read and records nothing.
C10_RefreshThrottle ==
    [][\A c \in Contexts :
          IsInit(c) =>
             LET t == CtxTab(c)
             IN  /\ storageWorks[t] =>
                       /\ lastEv'.refresh =
                             (LastRefresh(t) = NaN \/ now - LastRefresh(t) >= 3000)
                       /\ lastEv'.refresh =>
                             /\ refreshTs'[t] = String(now)
                             /\ parseInt(refreshTs'[t]) = now
                             /\ RefreshScheduled(c)'
                       /\ (lastEv'.refresh /\ LastRefresh(t) # NaN) =>
                             now - LastRefresh(t) >= 3000
                       /\ ~lastEv'.refresh => refreshTs'[t] = refreshTs[t]
                 /\ ~storageWorks[t] =>
                       lastEv'.refresh /\ refreshTs'[t] = refreshTs[t]]_vars

\* a context of tab 1 has run 2999 ms after the last refresh of its session and
\* has issued no read
C10_Witness ==
    /\ lastEv.op = "init" /\ CtxTab(lastEv.id) = 1
    /\ ~lastEv.refresh
    /\ LastRefresh(1) # NaN
    /\ now - LastRefresh(1) = 2999

(***************************************************************************)
(* Claims on the distribution of config changes                            *)
(***************************************************************************)
\* the step delivers the config-updated message p to its tab
IsDelivery(p) == p \in pushes /\ lastEv'.op = "push" /\ pushes' = pushes \ {p}

\* C7: when an update-config request changed the authoritative config, the
\* config-updated message that reaches a tab makes every open page context of
\* that tab rewrite its session cache to the new config, tagged with the current
\* version, without waiting for the context's next navigation.
C7_PushRewritesEveryCache ==
    [][\A p \in pushes :
          (IsDelivery(p) /\ storageWorks[p.tab]
                         /\ \E c \in Contexts : CtxTab(c) = p.tab /\ contexts[c].alive) =>
             sessionCache'[p.tab] = Stringify(p.config, "1.0.2")]_vars

(***************************************************************************)
(* Claims on the proxy adapter                                             *)
(***************************************************************************)
\* the last step let the main-frame request of a tab through
RequestLetThrough == lastEv.op = "request" /\ lastEv.ok

\* C6: a main-frame request to a hostname on the global allowlist is never let
\* through while the applied proxy settings route that hostname through a proxy:
\* it is canceled, or it proceeds while the settings send it direct.
C6_NoAllowlistedRequestThroughProxy ==
    RequestLetThrough =>
        ~(  isHostnameOnGlobalAllowlist(lastEv.host, currentConfig)
         /\ RoutesThroughProxy(appliedProxy, lastEv.host))

(***************************************************************************)
(* Claims: matcher and allowlist commands                                  *)
(***************************************************************************)
MatcherCalled == libCall.fn = "matchesPattern"

MatcherHost == ToLowerCase(libCall.hostname)

MatcherPattern == ToLowerCase(libCall.whitelist)

\* C11: a pattern that contains no "*" matches a hostname exactly when, comparing
\* case-insensitively, the hostname equals the pattern or equals "www." + pattern.
C11_PlainPattern ==
    (MatcherCalled /\ ~Includes(libCall.whitelist, <<"*">>)) =>
        (libCall.result <=>
            \/ MatcherHost = MatcherPattern
            \/ MatcherHost = <<"w","w","w",".">> \o MatcherPattern)

C11_Witness ==
    /\ MatcherCalled
    /\ libCall.hostname = H_www_example_com
    /\ libCall.whitelist = H_EXAMPLE_upper
    /\ libCall.result

\* the domain d of a pattern "*." + d or "*" + d, d without a leading dot and "*"
IsSuffixWildcard(pattern) ==
    /\ StartsWith(pattern, <<"*">>)
    /\ LET rest == Tail(pattern)
           d    == IF StartsWith(rest, <<".">>) THEN Tail(rest) ELSE rest
       IN d # <<>> /\ ~StartsWith(d, <<".">>) /\ ~Includes(d, <<"*">>)

WildcardDomain(pattern) ==
    IF StartsWith(pattern, <<"*", ".">>) THEN SubSeq(pattern, 3, Len(pattern))
    ELSE Tail(pattern)

SuffixRule(hostname, d) == hostname = d \/ EndsWith(hostname, <<".">> \o d)

\* C12 as stated: for every hostname, "*." + d and "*" + d give the same answer,
\* true exactly when the hostname equals d or ends with "." + d.
C12_Original ==
    (MatcherCalled /\ IsSuffixWildcard(MatcherPattern)) =>
        LET d == WildcardDomain(MatcherPattern)
        IN /\ libCall.result <=> SuffixRule(MatcherHost, d)
           /\ matchesPattern(libCall.hostname, <<"*", ".">> \o d)
                  <=> matchesPattern(libCall.hostname, <<"*">> \o d)

\* C12: for every hostname that contains no "*", "*." + d and "*" + d give the same
\* answer, true exactly when, comparing case-insensitively, the hostname equals d
\* or ends with "." + d.
C12_WildcardSpellingsAgree ==
    (/\ MatcherCalled
     /\ IsSuffixWildcard(MatcherPattern)
     /\ ~Includes(libCall.hostname, <<"*">>)) =>
        LET d == WildcardDomain(MatcherPattern)
        IN /\ libCall.result <=> SuffixRule(MatcherHost, d)
           /\ matchesPattern(libCall.hostname, <<"*", ".">> \o d)
                  <=> matchesPattern(libCall.hostname, <<"*">> \o d)

C12_Witness ==
    /\ MatcherCalled
    /\ libCall.hostname = H_sub_example_com
    /\ libCall.whitelist = P_star_example_com
    /\ libCall.result

\* C13: a pattern with "*" elsewhere than a single leading "*", a leading "*." or a
\* trailing ".*" is matched as a generic wildcard over the whole hostname.
C13_GenericWildcard ==
    (MatcherCalled /\ IsGenericWildcard(MatcherPattern)) =>
        (libCall.result <=> wildcardRegexTest(MatcherHost, MatcherPattern))

TokenSet(whitelistString) ==
    {Tokens(whitelistString)[i] : i \in 1..Len(Tokens(whitelistString))}

\* the allowlist holds, case-insensitively, the token domain or the token "*." + domain
HoldsToken(whitelistString, domain) ==
    \E t \in TokenSet(whitelistString) :
        \/ ToLowerCase(t) = ToLowerCase(domain)
        \/ ToLowerCase(t) = <<"*", ".">> \o ToLowerCase(domain)

AddCalled == libCall.fn = "addDomainToWhitelist"

RemoveCalled == libCall.fn = "removeDomainFromWhitelist"

\* a removal of the hostname that the step before added
RemovesAfterAdd ==
    /\ AddCalled
    /\ libCall'.fn = "removeDomainFromWhitelist"
    /\ libCall'.hostname = libCall.hostname

\* C14 as stated: removing a hostname right after adding it leaves the tokens the
\* allowlist had before the addition, for every hostname and allowlist.
C14_Original ==
    [][RemovesAfterAdd => TokenSet(allowlist') = TokenSet(libCall.whitelist)]_vars

\* C14: removing a hostname right after adding it leaves the tokens the allowlist
\* had before the addition, when that allowlist held neither the hostname nor
\* "*." + hostname.
C14_RemoveUndoesAdd ==
    [][(RemovesAfterAdd /\ ~HoldsToken(libCall.whitelist, libCall.hostname)) =>
           TokenSet(allowlist') = TokenSet(libCall.whitelist)]_vars

C14_Witness ==
    /\ RemoveCalled
    /\ libCall.hostname = H_example_com
    /\ libCall.whitelist = H_other_com \o <<",", " ">> \o P_star_dot_example_com
    /\ allowlist = H_other_com

\* C15: addDomain returns the allowlist unchanged when it holds the hostname or
\* "*." + hostname, else the allowlist with the one token "*." + hostname appended;
\* it never leaves a token twice that was there once.
C15_AddOnceOnly ==
    AddCalled =>
        IF HoldsToken(libCall.whitelist, libCall.hostname)
        THEN libCall.returned = libCall.whitelist
        ELSE Tokens(libCall.returned) =
                 Append(Tokens(libCall.whitelist), <<"*", ".">> \o libCall.hostname)

RemainingTokens(whitelistString, domain) ==
    LET keep(t) == /\ ToLowerCase(t) # ToLowerCase(domain)
                   /\ ToLowerCase(t) # <<"*", ".">> \o ToLowerCase(domain)
    IN SelectSeq(Tokens(whitelistString), keep)

\* C16 as stated: for every hostname and allowlist, removeDomain returns the tokens
\* that equal neither the hostname nor "*." + hostname, in order, joined by ", ".
C16_Original ==
    RemoveCalled =>
        libCall.returned =
            Join(RemainingTokens(libCall.whitelist, libCall.hostname), <<",", " ">>)

\* C16: for a non-empty hostname and a non-empty allowlist, removeDomain returns
\* the tokens that equal neither the hostname nor "*." + hostname, in order,
\* joined by ", "; for an empty hostname or allowlist it returns the allowlist
\* as it was given.
C16_RemoveKeepsTheRest ==
    RemoveCalled =>
        IF Truthy(libCall.hostname) /\ Truthy(libCall.whitelist)
        THEN libCall.returned =
                 Join(RemainingTokens(libCall.whitelist, libCall.hostname), <<",", " ">>)
        ELSE libCall.returned = libCall.whitelist

C16_Witness ==
    /\ RemoveCalled
    /\ libCall.hostname = H_example_com
    /\ Len(Tokens(libCall.whitelist)) = 3
    /\ libCall.returned = H_other_com

TokenOrders(n) ==
    {f \in [1..n -> 1..n] : \A i, j \in 1..n : i # j => f[i] # f[j]}

Permuted(tokens, f) == [i \in 1..Len(tokens) |-> tokens[f[i]]]

\* C17: isWhitelisted is true exactly when a trimmed, non-empty token of the list
\* matches the hostname, and gives the same answer for every order of the tokens.
C17_AnyTokenAnyOrder ==
    libCall.fn = "isWhitelisted" =>
        LET tokens == Tokens(libCall.whitelist)
        IN /\ libCall.result <=>
                  \E i \in 1..Len(tokens) : matchesPattern(libCall.hostname, tokens[i])
           /\ \A f \in TokenOrders(Len(tokens)) :
                  isWhitelisted(libCall.hostname, Join(Permuted(tokens, f), <<",">>))
                      <=> libCall.result

C17_Witness ==
    /\ libCall.fn = "isWhitelisted"
    /\ libCall.hostname = H_sub_example_com
    /\ Len(Tokens(libCall.whitelist)) = 3
    /\ ~matchesPattern(libCall.hostname, Tokens(libCall.whitelist)[1])
    /\ libCall.result

(***************************************************************************)
(* Claims: challenge-service exemption and rejected detections             *)
(***************************************************************************)
OnChallengeService(hostname) ==
    \/ hostname = CHALLENGE_DOMAIN
    \/ /\ Len(hostname) > Len(CHALLENGE_DOMAIN)
       /\ SubSeq(hostname, Len(hostname) - Len(CHALLENGE_DOMAIN), Len(hostname))
              = <<".">> \o CHALLENGE_DOMAIN

\* C18: for a request or document whose hostname is challenges.cloudflare.com or a
\* subdomain of it, the User-Agent header is not rewritten and no page protection
\* is injected, whatever the bypass map holds and whatever the time is.
C18_ChallengeServiceExempt ==
    (lastOp.op \in {"uaListener", "injector"} /\ OnChallengeService(lastOp.host)) =>
        (~lastOp.rewritten /\ ~lastOp.injected)

\* the listener sees a request to a subdomain of the challenge service while no
\* bypass is active for any of its suffixes
C18_Witness ==
    /\ lastOp.op = "uaListener"
    /\ lastOp.host = <<"a", ".">> \o CHALLENGE_DOMAIN
    /\ ~lastOp.rewritten
    /\ ~getTurnstileBypassIncludingParents(turnstileTimestamps, lastOp.host, now).active
    /\ ticks > 0

\* C19: a detection for which no hostname can be determined is answered with
\* success false and the error "Missing hostname", and changes neither the bypass
\* map nor the pending reapply/reload work nor any session flag.
C19_MissingHostnameRejected ==
    [][(lastOp'.op = "detect" /\ lastOp'.host \in {NullStr, EmptyStr}) =>
           /\ ~lastOp'.success
           /\ ~lastOp'.ignored
           /\ lastOp'.error = "Missing hostname"
           /\ turnstileTimestamps' = turnstileTimestamps
           /\ accepted' = accepted
           /\ effects' = effects
           /\ sessionFlag' = sessionFlag]_vars

\* a rejected detection while a bypass entry exists
C19_Witness ==
    /\ lastOp.op = "detect"
    /\ lastOp.host = EmptyStr
    /\ lastOp.error = "Missing hostname"
    /\ turnstileTimestamps # <<>>

(***************************************************************************)
(* Claims: proxy profiles                                                  *)
(***************************************************************************)
\* no route and no active reference of the proxy section names the profile
Unreferenced(proxy, name) ==
    /\ proxy.activeProfile # name
    /\ \A j \in 1..Len(proxy.domainRoutes) : proxy.domainRoutes[j].profile # name

\* every route and the active reference name a profile of the section
NoDanglingReference(proxy) ==
    /\ proxy.activeProfile = "" \/ proxy.activeProfile \in proxy.profiles
    /\ \A j \in 1..Len(proxy.domainRoutes) :
           proxy.domainRoutes[j].profile \in proxy.profiles

\* C20: on both paths that remove a profile, the removal takes the routes that
\* name the profile and the active reference to it, and the config it leaves has
\* no route and no active reference to a profile that does not exist.
C20_RemovalLeavesNoReference ==
    [][\A i \in ProfileIds :
          /\ (lastEv'.op = "libRemoved" /\ lastEv'.id = i) =>
                 /\ ProfileNames[i] \notin storedConfig'.cfg.proxy.profiles
                 /\ Unreferenced(storedConfig'.cfg.proxy, ProfileNames[i])
                 /\ NoDanglingReference(storedConfig'.cfg.proxy)
          /\ (lastEv'.op = "optionsRemoved" /\ lastEv'.id = i /\ lastEv'.ok) =>
                 /\ ProfileNames[i] \notin optionsConfig'.proxy.profiles
                 /\ Unreferenced(optionsConfig'.proxy, ProfileNames[i])
                 /\ NoDanglingReference(optionsConfig'.proxy)]_vars

(***************************************************************************)
(* Claims: merge of the default allowlists                                 *)
(***************************************************************************)
MergeCalled == libCall.fn = "mergeWhitelists"

LowerTokens(tokens) == {ToLowerCase(tokens[i]) : i \in 1..Len(tokens)}

\* C21: mergeWhitelists returns the user's tokens in their order, then the default
\* tokens that are not among them case-insensitively, joined by ", "; no appended
\* token repeats a user token or another appended token, and merging the result
\* with the same default list returns the result.
C21_MergeIsAdditive ==
    MergeCalled =>
        LET defaults == Tokens(libCall.hostname)
            user     == Tokens(libCall.whitelist)
            merged   == Tokens(libCall.returned)
            missing(t) == ToLowerCase(t) \notin LowerTokens(user)
            added    == SubSeq(merged, Len(user) + 1, Len(merged))
        IN /\ merged = user \o SelectSeq(defaults, missing)
           /\ libCall.returned = Join(merged, <<",", " ">>)
           /\ \A i \in 1..Len(added) :
                  /\ ToLowerCase(added[i]) \notin LowerTokens(user)
                  /\ \A j \in 1..Len(added) : added[i] = added[j] => i = j
           /\ mergeWhitelists(libCall.hostname, libCall.returned) = libCall.returned

\* the user list holds example.com, the default list other.com and example.com:
\* only other.com is appended
C21_Witness ==
    /\ MergeCalled
    /\ libCall.hostname = P_list_other_example
    /\ libCall.whitelist = H_example_com
    /\ libCall.returned = H_example_com \o <<",", " ">> \o H_other_com


(***************************************************************************)
(* Claims on the egress mode                                               *)
(***************************************************************************)
\* the mode the table of the claim gives for a config
ClaimedMode(config) ==
    LET routes == config.proxy.domainRoutes
        active == config.proxy.activeProfile
        emptyAllowlist ==
            config.globalWhitelist = NullStr \/ Trim(config.globalWhitelist) = EmptyStr
    IN IF ~config.enabled \/ ~config.proxy.enabled \/ (routes = <<>> /\ active = "")
       THEN "system"
       ELSE IF active # "" /\ routes = <<>> /\ emptyAllowlist THEN "fixed_servers"
       ELSE "pac_script"

\* applyProxySettings() read the config and reached its decision in this step
ModeDecided == lastEv'.op = "taskLoaded" /\ tasks' # tasks

\* the decision of this step is to set the mode the table gives
SetsClaimedMode(config) ==
    /\ lastEv'.ok
    /\ \E k \in tasks' :
          /\ k.stage = "set"
          /\ k.value.mode = ClaimedMode(config)
          /\ (ClaimedMode(config) = "fixed_servers"
                 => k.value = FixedServers(config.proxy.activeProfile))

\* C22 as stated: applyProxySettings selects system when global enabled is
\* false, proxy.enabled is false or there is neither a route nor an active
\* profile; fixed_servers with the active profile when there is an active
\* profile, no route and an empty global allowlist; pac_script otherwise.
C22_Original ==
    [][ModeDecided => SetsClaimedMode(loadConfig(storedConfig))]_vars

\* C22: the table holds whenever the fixed_servers case names a stored profile;
\* when the active profile is not among the stored profiles in that case,
\* nothing is set and the settings applied before stay in force.
C22_ModeTable ==
    [][ModeDecided =>
          LET config == loadConfig(storedConfig)
          IN IF /\ ClaimedMode(config) = "fixed_servers"
                /\ config.proxy.activeProfile \notin config.proxy.profiles
             THEN /\ ~lastEv'.ok
                  /\ tasks' = tasks \ {ApplyTask}
                  /\ appliedProxy' = appliedProxy
             ELSE SetsClaimedMode(config)]_vars

\* an active profile without routes and with a global allowlist was given a PAC
\* script, and the same profile without the allowlist the fixed server
C22_Witness ==
    /\ lastEv.op = "taskLoaded" /\ lastEv.ok
    /\ storedConfig.cfg.enabled /\ storedConfig.cfg.proxy.enabled
    /\ storedConfig.cfg.proxy.activeProfile = "LA"
    /\ storedConfig.cfg.proxy.domainRoutes = <<>>
    /\ storedConfig.cfg.globalWhitelist = H_example_com
    /\ \E k \in tasks : k.stage = "set" /\ k.value.mode = "pac_script"
                        /\ k.value.activeProfile = "LA"

(***************************************************************************)
(* Claims on the triggered-features ledger                                 *)
(***************************************************************************)
\* the entry a tab has after the logged events, starting from entry: a signal
\* of the entry's hostname adds its feature, a signal of another hostname starts
\* a new entry, a URL change to another hostname and a closing delete the entry
RECURSIVE EntryAfter(_, _, _)
EntryAfter(log, tabId, entry) ==
    IF log = <<>> THEN entry
    ELSE LET e == Head(log)
             next ==
                 IF e.tabId # tabId THEN entry
                 ELSE IF e.op = "signal"
                 THEN IF entry.present /\ entry.hostname = e.hostname
                      THEN [entry EXCEPT !.features = @ \cup {e.feature}]
                      ELSE [present |-> TRUE, hostname |-> e.hostname,
                            features |-> {e.feature}]
                 ELSE IF e.op = "navigate"
                 THEN IF entry.present /\ entry.hostname = extractHostname(e.url)
                      THEN entry ELSE NoEntry
                 ELSE NoEntry
         IN EntryAfter(Tail(log), tabId, next)

\* C23: for every tab the ledger entry holds one hostname and exactly the
\* features signalled for the tab since the entry was created; a signal of
\* another hostname and a navigation to another hostname start from the empty
\* set, closing the tab deletes the entry, and get-triggered-features returns
\* the set of the entry, or the empty list when there is no entry.
C23_LedgerTracksSignals ==
    /\ \A t \in Tabs : triggeredFeaturesPerTab[t] = EntryAfter(signalLog, t, NoEntry)
    /\ lastEv.op = "getTriggeredFeatures" =>
          /\ featuresReply.tabId = lastEv.id
          /\ featuresReply.features = EntryAfter(signalLog, lastEv.id, NoEntry).features

\* tab 1 signalled canvas on example.com and then useragent on other.com: the
\* query returns useragent only, and the entry of tab 2 is untouched
C23_Witness ==
    /\ lastEv.op = "getTriggeredFeatures" /\ lastEv.id = 1
    /\ Len(signalLog) = 3
    /\ signalLog[1] = LogEntry("signal", 1, H_example_com, "canvas", NullStr)
    /\ signalLog[2] = LogEntry("signal", 2, H_example_com, "canvas", NullStr)
    /\ signalLog[3] = LogEntry("signal", 1, H_other_com, "useragent", NullStr)
    /\ featuresReply.features = {"useragent"}
    /\ triggeredFeaturesPerTab[2].features = {"canvas"}

(***************************************************************************)
(* Claims on URLs without a hostname                                       *)
(***************************************************************************)
\* URL() throws on "not a url" and on null, and gives about:blank the hostname ""
NoHostnameUrls == {U_garbage, NullStr, U_about_blank}

\* C24: a URL that does not parse to a hostname makes shouldActivate return
\* false, for every feature and every config, as a value; the matcher is not
\* invoked for it.
C24_NoHostnameIsFalse ==
    PolicyCalled /\ dfCall.url \in NoHostnameUrls =>
        /\ dfCall.result = FALSE
        /\ dfCall.matcherCalls = 0

\* "not a url" is evaluated for an enabled feature under allowlists that would
\* have been searched for a hostname
C24_Witness ==
    /\ PolicyCalled
    /\ dfCall.url = U_garbage
    /\ dfConfig.enabled
    /\ PolicySection.present /\ PolicySection.enabled
    /\ dfConfig.globalWhitelist = P_star_dot_example_com
    /\ PolicySection.whitelist = H_other_com
    /\ dfCall.result = FALSE
    /\ dfCall.matcherCalls = 0

(***************************************************************************)
(* Claims on blank patterns                                                *)
(***************************************************************************)
IsBlankPattern(pattern) == Trim(pattern) = EmptyStr

\* the tokens of the allowlist as split(",") delivers them, blank ones included
RawTokens(whitelistString) ==
    IF whitelistString = NullStr THEN <<>> ELSE Split(whitelistString, ",")

\* C25: a pattern that is empty or consists only of whitespace never matches
\* any hostname, neither as a token of the allowlist string passed to
\* isWhitelisted nor when it is passed directly to matchesPattern.
C25_BlankPatternNeverMatches ==
    /\ (MatcherCalled /\ IsBlankPattern(libCall.whitelist)) => ~libCall.result
    /\ libCall.fn = "isWhitelisted" =>
          LET tokens == RawTokens(libCall.whitelist)
          IN libCall.result =
                \E i \in 1..Len(tokens) :
                    /\ ~IsBlankPattern(tokens[i])
                    /\ matchesPattern(libCall.hostname, Trim(tokens[i]))

(***************************************************************************)
(* Claims on addProxyProfile                                               *)
(***************************************************************************)
StoredProfiles == storedConfig.cfg.proxy.profiles

PairwiseDistinct(profiles) ==
    \A i, j \in 1..Len(profiles) : profiles[i] = profiles[j] => i = j

\* the name itself when it is free, else "name (k)" for the least k >= 1 that is free
FirstFreeName(profiles, name) ==
    IF name \notin NamesOf(profiles) THEN name
    ELSE Numbered(name,
                  CHOOSE n \in 1..(Len(profiles) + 1) :
                      /\ Numbered(name, n) \notin NamesOf(profiles)
                      /\ \A m \in 1..(n - 1) : Numbered(name, m) \in NamesOf(profiles))

\* C26: after any sequence of addProxyProfile calls the names of the stored
\* profiles are pairwise distinct: a profile whose name is taken is stored under
\* the first free name "name (k)", k = 1, 2, ..., and no existing profile is
\* renamed or removed.
C26_DistinctNamesNothingLost ==
    /\ [](PairwiseDistinct(StoredProfiles))
    /\ [][(lastEv'.op = "profileSaved" /\ tasks' # tasks) =>
            LET call == CHOOSE k \in tasks : k \notin tasks'
            IN /\ Len(StoredProfiles') = Len(StoredProfiles) + 1
               /\ SubSeq(StoredProfiles', 1, Len(StoredProfiles)) = StoredProfiles
               /\ StoredProfiles'[Len(StoredProfiles')] =
                     FirstFreeName(StoredProfiles, call.name)]_vars

(***************************************************************************)
(* Claims on the side effects of an accepted detection                     *)
(***************************************************************************)
\* the chain of the detection that the step just taken belongs to, before the step
ChainAt(stage) ==
    \E e \in effects :
        /\ e.stage = stage
        /\ e.host = lastOp'.host /\ e.ts = lastOp'.at /\ e.tab = lastOp'.tab
        /\ e \notin effects'

\* C27: for an accepted detect the bypass entry is recorded, then the
\* User-Agent hook is reapplied, then the session flag with the detection
\* timestamp is set in the sender's tab, and only after the flag is set is one
\* reload of the tab scheduled after the fixed delay, each at most once; the
\* reload never happens before the flag has been set.
C27_FlagBeforeReload ==
    [][/\ lastOp'.op = "uaReapplied" =>
             ChainAt("ua") /\ Lookup(accepted, lastOp'.host) >= lastOp'.at
       /\ lastOp'.op = "flagScriptDone" =>
             /\ ChainAt("script")
             /\ sessionFlag'[lastOp'.tab] = lastOp'.at
             /\ \E e \in effects' :
                   /\ e.stage = "timer" /\ e.ts = lastOp'.at /\ e.tab = lastOp'.tab
                   /\ e.due = now + TURNSTILE_RELOAD_DELAY_MS
       /\ lastOp'.op = "reload" =>
             /\ ChainAt("timer")
             /\ sessionFlag[lastOp'.tab] >= lastOp'.at]_vars

(***************************************************************************)
(* Claims on the lazy expiry                                               *)
(***************************************************************************)
\* the entries of the bypass map whose elapsed time is >= TTL now
ExpiredEntries == {d \in DOMAIN turnstileTimestamps :
                      now - turnstileTimestamps[d] >= TURNSTILE_BYPASS_TTL_MS}

\* C28 as stated: expiry is evaluated on every detect and every query call, and
\* no expired entry remains in the bypass map when a detect or query call
\* returns.
C28_Original ==
    lastOp.op \in {"detect", "query"} => ExpiredEntries = {}

\* C28: a query with a hostname and an accepted detect leave no expired entry
\* in the bypass map; an ignored detect leaves the live entry of its hostname,
\* and the calls that do not sweep (ignored detect, call without a hostname)
\* report no expired entry as active.
C28_SweepOnCallsWithHostname ==
    /\ (lastOp.op = "query" /\ Truthy(lastOp.host)) => ExpiredEntries = {}
    /\ (lastOp.op = "detect" /\ lastOp.success /\ ~lastOp.ignored) => ExpiredEntries = {}
    /\ (lastOp.op = "detect" /\ lastOp.ignored) =>
          /\ lastOp.host \in DOMAIN turnstileTimestamps
          /\ lastOp.host \notin ExpiredEntries
    /\ (lastOp.op \in {"detect", "query"} /\ ~Truthy(lastOp.host)) =>
          ~lastOp.active /\ ~lastOp.skipUA /\ (lastOp.op = "detect" => ~lastOp.success)

\* a query for example.com swept the expired entry of other.com
C28_Witness ==
    /\ lastOp.op = "query" /\ lastOp.host = H_example_com
    /\ H_other_com \in DOMAIN accepted
    /\ now - accepted[H_other_com] >= TURNSTILE_BYPASS_TTL_MS
    /\ H_other_com \notin DOMAIN turnstileTimestamps

(***************************************************************************)
(* Claims on the cancel-and-replay of allowlisted navigations              *)
(***************************************************************************)
\* the step just taken is the onBeforeRequest listener for the request of tab t
RequestStep(t) == lastEv'.op = "request" /\ lastEv'.id = t

MarkedForReplay(t) == pendingProxyDisableTabId = t

\* the request of tab t targets an allowlisted hostname while the proxy is
\* enabled in config and not disabled for the allowlist
AllowlistedUnderProxy(t) ==
    /\ currentConfig.proxy.enabled
    /\ ~proxyDisabledForWhitelist
    /\ isHostnameOnGlobalAllowlist(UrlHostname(navs[t].url), currentConfig)

\* the request is canceled, the flag is set, the tab is marked and the switch to
\* system mode that replays the URL is in progress
CanceledForReplay(t) ==
    /\ ~lastEv'.ok
    /\ navs'[t].stage = "none"
    /\ proxyDisabledForWhitelist'
    /\ pendingProxyDisableTabId' = t
    /\ \E k \in tasks' : k.kind = "system" /\ k.stage = "set"
                         /\ k.tab = t /\ k.url = navs[t].url

\* a re-navigation of tab t starts only in the step in which the switch to
\* system mode takes effect
ReplayAfterSwitch(t) ==
    (navs'[t].stage = "navigate" /\ navs'[t] # navs[t]) =>
        /\ appliedProxy' = SystemMode
        /\ \E k \in tasks : /\ k \notin tasks'
                            /\ k.kind = "system" /\ k.tab = t /\ k.url = navs'[t].url

\* the request of the marked tab is let through and clears the mark
MarkedLetThrough(t) ==
    /\ lastEv'.ok
    /\ navs'[t].stage = "commit"
    /\ pendingProxyDisableTabId' = 0

RequestUntouched(t) ==
    /\ lastEv'.ok
    /\ navs'[t].stage = "commit"
    /\ UNCHANGED <<proxyDisabledForWhitelist, pendingProxyDisableTabId, tasks, appliedProxy>>

\* C29 as stated: an allowlisted main-frame request under an enabled proxy is
\* canceled, the flag is set, the tab is marked and the URL is re-navigated only
\* after the switch to system has completed; the request of the marked tab is
\* let through once and clears the mark; when proxying is disabled in config
\* the request is left untouched and no state changes.
C29_Original ==
    [][\A t \in Tabs :
          /\ (RequestStep(t) /\ ~MarkedForReplay(t) /\ AllowlistedUnderProxy(t))
                => CanceledForReplay(t)
          /\ ReplayAfterSwitch(t)
          /\ (RequestStep(t) /\ MarkedForReplay(t)) => MarkedLetThrough(t)
          /\ (RequestStep(t) /\ ~currentConfig.proxy.enabled) => RequestUntouched(t)]_vars

\* C29: as above, but with proxying disabled in config no state changes only
\* when the tab is not marked: the request of a marked tab clears the mark
\* whatever the config says.
C29_CancelAndReplay ==
    [][\A t \in Tabs :
          /\ (RequestStep(t) /\ ~MarkedForReplay(t) /\ AllowlistedUnderProxy(t))
                => CanceledForReplay(t)
          /\ ReplayAfterSwitch(t)
          /\ (RequestStep(t) /\ MarkedForReplay(t)) => MarkedLetThrough(t)
          /\ (RequestStep(t) /\ ~currentConfig.proxy.enabled /\ ~MarkedForReplay(t))
                => RequestUntouched(t)]_vars

\* the replayed request of the marked tab 1 to example.com was let through under
\* system mode and cleared the mark
C29_Witness ==
    /\ lastEv.op = "request" /\ lastEv.id = 1 /\ lastEv.ok
    /\ lastEv.host = H_example_com
    /\ navCount = 1
    /\ currentConfig.proxy.enabled
    /\ isHostnameOnGlobalAllowlist(H_example_com, currentConfig)
    /\ proxyDisabledForWhitelist
    /\ pendingProxyDisableTabId = 0
    /\ appliedProxy = SystemMode
    /\ navs[1].stage = "commit"

(***************************************************************************)
(* Claims on the re-enabling of the proxy                                  *)
(***************************************************************************)
\* C30: when a main-frame navigation targets a hostname that is not globally
\* allowlisted while the proxy is disabled for the allowlist, the flag is
\* cleared and the proxy settings are recomputed and reapplied, and the
\* reapplication has completed before that navigation's request proceeds.
C30_ReappliedBeforeRequest ==
    [][\A t \in Tabs :
          /\ (lastEv'.op = "navigate" /\ navs'[t] # navs[t] /\ ReenablesProxy(navs'[t].url))
                => /\ ~proxyDisabledForWhitelist'
                   /\ \E k \in tasks' : k.kind = "apply"
          /\ (RequestStep(t) /\ lastEv'.ok /\ navs[t].reapplied)
                => \A k \in tasks : k.kind # "apply"]_vars

(***************************************************************************)
(* Claims on the config requests in flight together                        *)
(***************************************************************************)
\* the step is the start of the handler of a config request
RequestStarts == lastEv'.op \in {"update", "add", "remove"} /\ updates' = updates + 1

\* C31: a message handler runs to completion before the handler of the next
\* message starts: when the handler of a config request starts, no handler of an
\* earlier request is still awaiting, and between the start of a handler and its
\* last step no other handler changes the current or the stored config.
C31_HandlersRunToCompletion ==
    [][/\ RequestStarts => handlers = {}
       /\ \A h \in handlers :
             (h \in handlers' \/ \E k \in handlers' : k.id = h.id)
                => \/ lastEv'.id = h.id
                   \/ UNCHANGED <<currentConfig, storedConfig>>]_vars

(***************************************************************************)
(* Claims on what an active bypass suppresses                              *)
(***************************************************************************)
\* C32: an active bypass suppresses User-Agent spoofing only: for every feature
\* other than useragent the get-injection-config answer for a URL names the
\* feature exactly when the policy engine activates it for that URL, whether
\* or not the hostname of the tab has an active bypass entry.
C32_BypassSuppressesUserAgentOnly ==
    lastOp.op = "injectionConfig" =>
        \A f \in FeatureIds \ {"useragent"} :
            (f \in lastOp.features) = shouldActivateFeature(currentConfig, lastOp.url, f)

(***************************************************************************)
(* Claims on the network-level protections                                 *)
(***************************************************************************)
\* the destination of the last call is exempt from every protection
ExemptDestination ==
    \/ ~currentConfig.enabled
    \/ isHostnameOnGlobalAllowlist(lastOp.host, currentConfig)

\* C33: when global enabled is false or the destination hostname is on the
\* global allowlist, the User-Agent header of a request to it is not rewritten
\* and the WebRTC policy set for a navigation to it is "default".
C33_NoNetworkProtectionWhenExempt ==
    /\ (lastOp.op = "uaListener" /\ ExemptDestination) => ~lastOp.rewritten
    /\ (lastOp.op = "webrtc" /\ ExemptDestination) => lastOp.policy = "default"

(***************************************************************************)
(* Claims on the migration of the config a page context reads              *)
(***************************************************************************)
\* the config has its enabled and globalWhitelist fields and no missing or
\* retired WebGL preset
NeedsNoMigration(view) ==
    /\ view.enabled # "undefined"
    /\ ~MissingGlobalWhitelist(view.globalWhitelist)
    /\ view.webgl.present => (view.webgl.preset # "" /\ view.webgl.preset \notin RetiredPresets)

\* the next initialization accepts the blob and has nothing to migrate
CurrentBlob(blob) ==
    /\ blob.kind = "object"
    /\ blob.version = CONFIG_VERSION
    /\ NeedsNoMigration(blob.cfg)

\* the step is a run of the injector in context c that took its config from the cache
InitFromCache(c) == lastEv'.op = "init" /\ lastEv'.id = c /\ lastEv'.ok

\* the step is the callback of the refresh read of context c with a usable storage
Refreshed(c) == lastEv'.op = "refreshed" /\ lastEv'.id = c /\ storageWorks[CtxTab(c)]

\* C34 as stated: on every read of the cached or the stored config the config is
\* migrated and the cache is left holding a current-version blob that needs no
\* migration.
C34_Original ==
    [][\A c \in MigrationContexts :
          /\ InitFromCache(c) => /\ NeedsNoMigration(contexts'[c].config)
                                 /\ CurrentBlob(sessionCache'[CtxTab(c)])
          /\ Refreshed(c) => CurrentBlob(sessionCache'[CtxTab(c)])]_vars

\* C34: the config a context goes on with is always migrated (retired presets
\* become apple, a missing preset auto, missing enabled and globalWhitelist are
\* filled); the refresh writes the migrated stored config with the current
\* version tag; a read from the cache writes the cache back only when
\* globalWhitelist was null, with the fields filled but the WebGL section as
\* it was, and leaves the cache alone otherwise.
C34_MigratedOnRead ==
    [][\A c \in MigrationContexts :
          LET old == sessionCache[CtxTab(c)]
              new == sessionCache'[CtxTab(c)]
          IN  /\ (lastEv'.op = "init" /\ lastEv'.id = c)
                    => NeedsNoMigration(contexts'[c].config)
              /\ InitFromCache(c)
                    => /\ old.cfg.webgl.preset \in RetiredPresets
                            => contexts'[c].config.webgl.preset = "apple"
                       /\ IF old.cfg.globalWhitelist = "null"
                          THEN /\ new.kind = "object" /\ new.version = CONFIG_VERSION
                               /\ new.cfg.globalWhitelist = ""
                               /\ new.cfg.enabled # "undefined"
                               /\ new.cfg.webgl = old.cfg.webgl
                          ELSE new = old
              /\ (lastEv'.op = "init" /\ lastEv'.id = c /\ ~lastEv'.ok) => new = old
              /\ Refreshed(c) => CurrentBlob(new)]_vars

\* context 2 took the config from a cache with a retired preset while the refresh
\* was throttled: it goes on with apple and the cache still holds the retired preset
C34_Witness ==
    /\ lastEv.op = "init" /\ lastEv.id = 2 /\ lastEv.ok /\ ~lastEv.refresh
    /\ contexts[2].config.webgl.preset = "apple"
    /\ sessionCache[1].cfg.webgl.preset \in RetiredPresets

(***************************************************************************)
(* Claims on the two matchers                                              *)
(***************************************************************************)
\* C35: DomainFilter.matchesPattern and the test of the inline isDomainWhitelisted
\* of the injected page script return the same boolean for every hostname and
\* every pattern.
C35_MatchersAgree ==
    MatcherCalled =>
        (libCall.result <=> isDomainWhitelistedPattern(MatcherHost, MatcherPattern))

(***************************************************************************)
(* Claims on a failed save                                                 *)
(***************************************************************************)
\* C36: when persisting the config fails during update-config, add-to-whitelist
\* or remove-from-whitelist, the request is answered with a failure and the
\* in-memory config, its globalWhitelist included, is what it was before the
\* request; nothing is reapplied and nothing is broadcast.  A save can fail
\* whenever it was started, so the handler changes nothing in memory before its
\* save has resolved, and the step of the failure changes nothing but the handler.
C36_FailedSaveChangesNothing ==
    [][/\ RequestStarts => currentConfig' = currentConfig
       /\ lastEv'.op = "saveFailed"
             => /\ UNCHANGED <<currentConfig, storedConfig, appliedProxy, pushes>>
                /\ \A k \in handlers' : k.id # lastEv'.id]_vars

(***************************************************************************)
(* Claims on the flag and the applied egress mode                          *)
(***************************************************************************)
\* no call that ends in chrome.proxy.settings.set is in progress
NoProxyCallInFlight ==
    /\ tasks = {}
    /\ \A h \in handlers : h.pc \notin {"save", "load", "set"}

\* C37: in every reachable state in which proxyDisabledForWhitelist is true and
\* no proxy-settings call is in flight, the applied egress mode is system.
C37_FlagImpliesSystemMode ==
    (proxyDisabledForWhitelist /\ NoProxyCallInFlight) => appliedProxy = SystemMode

(***************************************************************************)
(* Claims on refresh reads next to pushes                                  *)
(***************************************************************************)
\* C38: once a context of a tab has written a pushed config to the session cache,
\* the completion of a refresh read of that tab does not replace it by an older
\* config: the cache still holds the pushed config.
C38_RefreshKeepsPushedConfig ==
    [][\A t \in Tabs :
          (/\ lastEv.op = "push" /\ lastEv.id = t /\ TabListens(t)
           /\ lastEv'.op = "refreshed" /\ CtxTab(lastEv'.id) = t)
          => sessionCache'[t] = sessionCache[t]]_vars

(***************************************************************************)
(* Claims on config requests in flight together                            *)
(***************************************************************************)
\* every request received so far was saved and has sent its broadcast
AllRequestsCompleted == handlers = {} /\ {p.id : p \in pushes} = 1..updates

\* C39: when every request was saved and the last of them has sent its
\* config-updated broadcast, the in-memory config, the persisted config and the
\* config carried by that broadcast are the same config.
C39_RequestsConverge ==
    [][(lastEv'.op = "broadcast" /\ AllRequestsCompleted')
          => \A p \in pushes' \ pushes :
                /\ p.config = currentConfig'
                /\ Stored(p.config) = storedConfig']_vars

(***************************************************************************)
(* Claims on detections under a bypassed ancestor                          *)
(***************************************************************************)
\* some ancestor domain of h has an unexpired entry
AncestorUnexpired(m, h, t) ==
    \E i \in 2..SuffixCount(h) : Unexpired(m, SuffixAt(h, i), t)

\* C40: a detect for a hostname that has no unexpired entry of its own, while an
\* ancestor domain has one, is accepted although query already reports the
\* hostname as bypassed through the ancestor: the entry of the hostname is
\* recorded at the current time, the User-Agent reapply that leads to the session
\* flag and the reload is started for the sender's tab, and the reload timer is
\* started when the flag script has returned.
C40_DetectIgnoresAncestors ==
    [][/\ ( /\ lastOp'.op = "detect"
            /\ Truthy(lastOp'.host)
            /\ ~Unexpired(turnstileTimestamps, lastOp'.host, now)
            /\ AncestorUnexpired(turnstileTimestamps, lastOp'.host, now) )
          => LET h == lastOp'.host
                 q == getTurnstileBypassIncludingParents(turnstileTimestamps, h, now)
             IN  /\ q.active /\ q.matchedDomain # h
                 /\ lastOp'.success /\ ~lastOp'.ignored
                 /\ Lookup(turnstileTimestamps', h) = now
                 /\ \A g \in KnownHosts \ {h} :
                       Unexpired(turnstileTimestamps, g, now)
                          => Lookup(turnstileTimestamps', g) = Lookup(turnstileTimestamps, g)
                 /\ [tab |-> lastOp'.tab, host |-> h, ts |-> now, stage |-> "ua", due |-> 0]
                       \in effects' \ effects
       /\ (lastOp'.op = "flagScriptDone" /\ AncestorUnexpired(turnstileTimestamps, lastOp'.host, lastOp'.at))
          => [tab |-> lastOp'.tab, host |-> lastOp'.host, ts |-> lastOp'.at,
              stage |-> "timer", due |-> now + TURNSTILE_RELOAD_DELAY_MS] \in effects'
      ]_vars

\* the tab is reloaded for the detection of sub.example.com that was accepted
\* while the earlier entry of example.com was unexpired
C40_Witness ==
    /\ lastOp.op = "reload"
    /\ lastOp.host = H_sub_example_com
    /\ lastOp.tab = 1
    /\ Lookup(turnstileTimestamps, H_sub_example_com) = lastOp.at
    /\ Lookup(turnstileTimestamps, H_example_com) # 0
    /\ Lookup(turnstileTimestamps, H_example_com) < lastOp.at
    /\ lastOp.at - Lookup(turnstileTimestamps, H_example_com) < TURNSTILE_BYPASS_TTL_MS
=============================================================================
